---- MODULE Spec2Model ----
(***************************************************************************)
(* Excel expense import: ExcelImportService (column detection, row         *)
(* extraction, validation), the import_excel endpoint and the offline      *)
(* chunked importer (scripts/import_excel_local.py).                       *)
(*                                                                         *)
(* Representation.  A Python str is a sequence of one-character strings.   *)
(* A cell value is a record tagged by its Python type:                     *)
(*   [t |-> "none"]                         None                           *)
(*   [t |-> "str", s |-> <<chars>>]         str                            *)
(*   [t |-> "num", n |-> i, k |-> d]        int/float, value i / 10^d      *)
(*   [t |-> "date", y, m, d]                datetime.date                  *)
(*   [t |-> "datetime", y, m, d, tm]        datetime.datetime              *)
(* Floats are exact decimals (binary rounding is not modelled).            *)
(***************************************************************************)
EXTENDS Integers, Sequences, FiniteSets, TLC

VARIABLES
    call,   \* pure-function harness: the function under evaluation
    arg,    \* its argument
    ret     \* its result (NotCalled before the call)

VARIABLES
    pc,                  \* position of the import run
    file,                \* the uploaded file: "ok" or what is wrong with it
    workbook,            \* [sheetnames, cats: the Categories sheet, sheet: the active sheet]
    categories,          \* store: the categories table, in store order
    expenses,            \* store: the expenses table, in insertion order
    next_id,             \* the next fresh uuid4
    category_id_map,     \* legacy id (str) -> category id
    categories_imported,
    cat_row,             \* row of the Categories sheet to process next
    expenses_data,       \* parse(): the validated rows
    parse_errors,        \* parse(): the error list
    all_categories,      \* db.query(Category).all() taken after the bootstrap
    idx,                 \* enumerate(expenses_data, start=1)
    imported_count,
    failed_rows,
    category_matches,
    uncategorized_count,
    skipped_count,
    response             \* what the caller receives (NotCalled while running)

VARIABLES
    skip_existing,       \* offline importer: --skip-existing
    batch_size,          \* offline importer: --batch-size
    batch_num,           \* offline importer: the batch to process next
    failed_count,        \* offline importer: sum of the batches' failed counts
    commit_failed        \* offline importer: the last batch's commit raised

fnVars == <<call, arg, ret>>
storeVars == <<categories, expenses, next_id>>
bootVars == <<category_id_map, categories_imported, cat_row>>
parseVars == <<expenses_data, parse_errors, all_categories>>
loopVars == <<idx, imported_count, failed_rows, category_matches,
              uncategorized_count, skipped_count>>
localVars == <<skip_existing, batch_size, batch_num, failed_count, commit_failed>>
runVars == <<pc, file, workbook, storeVars, bootVars, parseVars, loopVars, response,
             localVars>>
vars == <<fnVars, runVars>>

(***************************************************************************)
(* Bounds of the model                                                     *)
(***************************************************************************)
MaxAmtLen == 4      \* length of the enumerated amount strings
MaxDataRows == 3    \* data rows of the transaction sheet
MaxLayoutRows == 1  \* data rows below the header in the header-layout sheets
UuidLen == 2        \* hex digits of a uuid (32 in the library)

(***************************************************************************)
(* Python values                                                           *)
(***************************************************************************)
None == [t |-> "none"]
Str(s) == [t |-> "str", s |-> s]
Num(n, k) == [t |-> "num", n |-> n, k |-> k]
NotCalled == [t |-> "notcalled"]

\* F applied to v: a name bound to a value that is computed once
With(v, F(_)) == F(v)

RECURSIVE Pow10(_)
Pow10(k) == IF k = 0 THEN 1 ELSE 10 * Pow10(k - 1)

\* A float in lowest decimal form: 1.50 and 1.5 are the same number.
RECURSIVE NormNum(_, _)
NormNum(n, k) ==
    IF k > 0 /\ n % 10 = 0 THEN NormNum(n \div 10, k - 1) ELSE Num(n, k)

Digits == <<"0", "1", "2", "3", "4", "5", "6", "7", "8", "9">>
IsDigit(c) == \E i \in 1..10 : Digits[i] = c
DigitVal(c) == (CHOOSE i \in 1..10 : Digits[i] = c) - 1

\* str.isspace for the characters of the model's alphabets
IsSpace(c) == c \in {" ", "\t", "\n"}

\* str.strip()
RECURSIVE LStrip(_)
LStrip(s) == IF s # <<>> /\ IsSpace(Head(s)) THEN LStrip(Tail(s)) ELSE s
RECURSIVE RStrip(_)
RStrip(s) ==
    IF s # <<>> /\ IsSpace(s[Len(s)]) THEN RStrip(SubSeq(s, 1, Len(s) - 1)) ELSE s
Strip(s) == RStrip(LStrip(s))

\* str.count(c)
RECURSIVE Count(_, _)
Count(s, c) ==
    IF s = <<>> THEN 0
    ELSE (IF Head(s) = c THEN 1 ELSE 0) + Count(Tail(s), c)

\* str.replace(c, '') and re.sub('[<set>]', '', s)
RECURSIVE RemoveChars(_, _)
RemoveChars(s, set) ==
    IF s = <<>> THEN <<>>
    ELSE IF Head(s) \in set THEN RemoveChars(Tail(s), set)
    ELSE <<Head(s)>> \o RemoveChars(Tail(s), set)

\* index of the first c in s, 0 when absent
RECURSIVE IndexOfFrom(_, _, _)
IndexOfFrom(s, c, i) ==
    IF i > Len(s) THEN 0
    ELSE IF s[i] = c THEN i
    ELSE IndexOfFrom(s, c, i + 1)
IndexOf(s, c) == IndexOfFrom(s, c, 1)

\* value of a digit string, most significant digit first
RECURSIVE DigitsVal(_)
DigitsVal(s) ==
    IF s = <<>> THEN 0
    ELSE 10 * DigitsVal(SubSeq(s, 1, Len(s) - 1)) + DigitVal(s[Len(s)])

AllDigits(s) == \A i \in 1..Len(s) : IsDigit(s[i])

(***************************************************************************)
(* float(str): [sign] digits [. digits] | [sign] . digits | digits .       *)
(* Exponents, underscores, inf and nan are outside the alphabets of the    *)
(* model, so every other string raises ValueError (None here).             *)
(***************************************************************************)
PyFloatUnsigned(s) ==
    With(IndexOf(s, "."), LAMBDA dot :
    IF s = <<>> THEN None
    ELSE IF dot = 0
    THEN IF AllDigits(s) THEN NormNum(DigitsVal(s), 0) ELSE None
    ELSE With(SubSeq(s, 1, dot - 1), LAMBDA ip :
         With(SubSeq(s, dot + 1, Len(s)), LAMBDA fp :
            IF AllDigits(ip) /\ AllDigits(fp) /\ Len(ip) + Len(fp) > 0
            THEN NormNum(DigitsVal(ip \o fp), Len(fp))
            ELSE None)))

PyFloat(s0) ==
    With(Strip(s0), LAMBDA s :
    IF s # <<>> /\ Head(s) \in {"-", "+"}
    THEN With(PyFloatUnsigned(Tail(s)), LAMBDA u :
         IF u = None THEN None
         ELSE IF Head(s) = "-" THEN Num(-u.n, u.k) ELSE u)
    ELSE PyFloatUnsigned(s))

\* Python truthiness of a cell value
Truthy(v) ==
    CASE v.t = "none" -> FALSE
      [] v.t = "str" -> v.s # <<>>
      [] v.t = "num" -> v.n # 0
      [] OTHER -> TRUE

(***************************************************************************)
(* datetime.date / datetime.datetime.  A date is held as its Excel serial  *)
(* number (days since 1899-12-30), a datetime adds the seconds of the day. *)
(***************************************************************************)
Date(ord) == [t |-> "date", ord |-> ord]
DateTime(ord, tm) == [t |-> "datetime", ord |-> ord, tm |-> tm]

\* days since 1899-12-30 of the proleptic Gregorian date y-m-d
DaysFromCivil(y, m, d) ==
    With(IF m <= 2 THEN y - 1 ELSE y, LAMBDA yy :
    With(yy \div 400, LAMBDA era :
    With(yy - era * 400, LAMBDA yoe :
    With(IF m > 2 THEN m - 3 ELSE m + 9, LAMBDA mp :
    With((153 * mp + 2) \div 5 + d - 1, LAMBDA doy :
    With(yoe * 365 + yoe \div 4 - yoe \div 100 + doy, LAMBDA doe :
    era * 146097 + doe - 719468 + 25569))))))

\* <<y, m, d>> of a serial number
CivilFromDays(ord) ==
    With(ord - 25569 + 719468, LAMBDA z :
    With(z \div 146097, LAMBDA era :
    With(z - era * 146097, LAMBDA doe :
    With((doe - doe \div 1460 + doe \div 36524 - doe \div 146096) \div 365, LAMBDA yoe :
    With(doe - (365 * yoe + yoe \div 4 - yoe \div 100), LAMBDA doy :
    With((5 * doy + 2) \div 153, LAMBDA mp :
    With(doy - (153 * mp + 2) \div 5 + 1, LAMBDA d :
    With(IF mp < 10 THEN mp + 3 ELSE mp - 9, LAMBDA m :
    <<yoe + era * 400 + (IF m <= 2 THEN 1 ELSE 0), m, d>>))))))))

IsLeap(y) == (y % 4 = 0 /\ y % 100 # 0) \/ y % 400 = 0
DaysInMonth(y, m) ==
    IF m = 2 THEN (IF IsLeap(y) THEN 29 ELSE 28)
    ELSE IF m \in {4, 6, 9, 11} THEN 30 ELSE 31

\* datetime(y, m, d): ValueError (None) outside the calendar
MakeDate(y, m, d) ==
    IF y >= 1 /\ y <= 9999 /\ m >= 1 /\ m <= 12 /\ d >= 1 /\ d <= DaysInMonth(y, m)
    THEN Date(DaysFromCivil(y, m, d))
    ELSE None

\* datetime.max as a serial number: beyond it timedelta addition overflows
MaxSerial == DaysFromCivil(9999, 12, 31)

\* date_class.today(): the day of the run
Today == Date(DaysFromCivil(2026, 11, 4))

\* str(value) for the value types that reach string handling
RECURSIVE NatToStr(_)
NatToStr(n) ==
    IF n < 10 THEN <<Digits[n + 1]>>
    ELSE NatToStr(n \div 10) \o <<Digits[(n % 10) + 1]>>

RECURSIVE ZeroPad(_, _)
ZeroPad(s, width) == IF Len(s) >= width THEN s ELSE ZeroPad(<<"0">> \o s, width)

IsoDate(ord) ==
    With(CivilFromDays(ord), LAMBDA c :
    ZeroPad(NatToStr(c[1]), 4) \o <<"-">> \o ZeroPad(NatToStr(c[2]), 2)
        \o <<"-">> \o ZeroPad(NatToStr(c[3]), 2))

IsoTime(tm) ==
    ZeroPad(NatToStr(tm \div 3600), 2) \o <<":">>
        \o ZeroPad(NatToStr((tm \div 60) % 60), 2) \o <<":">>
        \o ZeroPad(NatToStr(tm % 60), 2)

NumStr(a, k) ==
    IF k = 0 THEN NatToStr(a)
    ELSE NatToStr(a \div Pow10(k)) \o <<".">> \o ZeroPad(NatToStr(a % Pow10(k)), k)

PyStr(v) ==
    CASE v.t = "str" -> v.s
      [] v.t = "none" -> <<"N", "o", "n", "e">>
      [] v.t = "num" -> IF v.n < 0 THEN <<"-">> \o NumStr(-v.n, v.k) ELSE NumStr(v.n, v.k)
      [] v.t = "date" -> IsoDate(v.ord)
      [] v.t = "datetime" -> IsoDate(v.ord) \o <<" ">> \o IsoTime(v.tm)

(***************************************************************************)
(* ExcelImportService._parse_amount                                        *)
(***************************************************************************)
\* line 499: the character class [Rp$<euro><pound><yen>,\s]; a character
\* outside ASCII is written by its code point
CurrencyChars == {"R", "p", "$", "U+20AC", "U+00A3", "U+00A5", ",", " ", "\t", "\n"}

\* a separator rule that always reads a single '.' as the decimal point
StripThousands_DecimalOnly(value_str) ==
    IF Count(value_str, ".") > 1 THEN RemoveChars(value_str, {"."}) ELSE value_str

\* lines 503-514: '.' as thousands separator or decimal point
StripThousands(value_str) ==
    IF Count(value_str, ".") > 1
    THEN RemoveChars(value_str, {"."})
    ELSE IF Count(value_str, ".") = 1
    THEN With(SubSeq(value_str, IndexOf(value_str, ".") + 1, Len(value_str)), LAMBDA part1 :
         IF Len(part1) > 2 THEN RemoveChars(value_str, {"."}) ELSE value_str)
    ELSE value_str

_parse_amount(value) ==
    IF value.t = "num" THEN NormNum(value.n, value.k)
    ELSE IF ~Truthy(value) THEN None
    ELSE PyFloat(StripThousands(RemoveChars(Strip(PyStr(value)), CurrencyChars)))

(***************************************************************************)
(* datetime.strptime(value_str, fmt).date().  A format is a sequence of    *)
(* directives and literal characters.  Each directive accepts what its     *)
(* regular expression in _strptime accepts; a blank of the format matches  *)
(* one or more blanks.  Every format used here separates its numeric       *)
(* fields by literals, so a string has at most one full match, which is    *)
(* the match the library finds.                                            *)
(***************************************************************************)
Directives == {"%Y", "%y", "%m", "%d", "%H", "%M", "%S"}

DirLens(f) == IF f = "%Y" THEN {4} ELSE IF f = "%y" THEN {2} ELSE {1, 2}

AcceptNum(f, n, v) ==
    CASE f = "%Y" -> n = 4
      [] f = "%y" -> n = 2
      [] f = "%m" -> (n = 2 /\ v >= 1 /\ v <= 12) \/ (n = 1 /\ v >= 1)
      [] f = "%d" -> (n = 2 /\ v >= 1 /\ v <= 31) \/ (n = 1 /\ v >= 1)
      [] f = "%H" -> (n = 2 /\ v <= 23) \/ n = 1
      [] f = "%M" -> (n = 2 /\ v <= 59) \/ n = 1
      [] f = "%S" -> (n = 2 /\ v <= 61) \/ n = 1

Accept(f, tok) ==
    \/ AllDigits(tok) /\ AcceptNum(f, Len(tok), DigitsVal(tok))
    \/ f = "%d" /\ Len(tok) = 2 /\ tok[1] = " " /\ IsDigit(tok[2]) /\ tok[2] # "0"

TokVal(tok) == DigitsVal(RemoveChars(tok, {" "}))

RECURSIVE StrpMatch(_, _, _)
StrpMatch(fmt, s, acc) ==
    IF fmt = <<>> THEN (IF s = <<>> THEN {acc} ELSE {})
    ELSE IF Head(fmt) = " "
    THEN UNION {StrpMatch(Tail(fmt), SubSeq(s, n + 1, Len(s)), acc) :
                   n \in {k \in 1..Len(s) : \A j \in 1..k : IsSpace(s[j])}}
    ELSE IF Head(fmt) \in Directives
    THEN UNION {IF Accept(Head(fmt), SubSeq(s, 1, n))
                THEN StrpMatch(Tail(fmt), SubSeq(s, n + 1, Len(s)),
                               [acc EXCEPT ![Head(fmt)] = TokVal(SubSeq(s, 1, n))])
                ELSE {} :
                   n \in {k \in DirLens(Head(fmt)) : k <= Len(s)}}
    ELSE IF s # <<>> /\ Head(s) = Head(fmt)
    THEN StrpMatch(Tail(fmt), Tail(s), acc)
    ELSE {}

\* the year of a match: %y pivots at 69
StrpYear(fmt, b) ==
    IF \E i \in 1..Len(fmt) : fmt[i] = "%y"
    THEN (IF b["%y"] <= 68 THEN 2000 + b["%y"] ELSE 1900 + b["%y"])
    ELSE b["%Y"]

Strptime(s, fmt) ==
    With(StrpMatch(fmt, s, [f \in Directives |-> 0]), LAMBDA found :
    IF found = {} THEN None
    ELSE With(CHOOSE x \in found : TRUE, LAMBDA b :
         MakeDate(StrpYear(fmt, b), b["%m"], b["%d"])))

\* the first format of the list that parses s, None when none does
RECURSIVE TryFormats(_, _)
TryFormats(s, fmts) ==
    IF fmts = <<>> THEN None
    ELSE With(Strptime(s, Head(fmts)), LAMBDA parsed :
         IF parsed # None THEN parsed ELSE TryFormats(s, Tail(fmts)))

\* lines 404-416
datetime_formats == <<
    <<"%Y", "-", "%m", "-", "%d", " ", "%H", ".", "%M", ".", "%S">>,
    <<"%m", "/", "%d", "/", "%Y", " ", "%H", ":", "%M", ":", "%S">>,
    <<"%d", "/", "%m", "/", "%Y", " ", "%H", ":", "%M", ":", "%S">>,
    <<"%Y", "-", "%m", "-", "%d", " ", "%H", ":", "%M", ":", "%S">>,
    <<"%m", "/", "%d", "/", "%Y", " ", "%H", ":", "%M">>,
    <<"%d", "/", "%m", "/", "%Y", " ", "%H", ":", "%M">>,
    <<"%Y", "-", "%m", "-", "%d", " ", "%H", ":", "%M">>,
    <<"%m", "-", "%d", "-", "%Y", " ", "%H", ":", "%M", ":", "%S">>,
    <<"%d", "-", "%m", "-", "%Y", " ", "%H", ":", "%M", ":", "%S">>,
    <<"%Y", "/", "%m", "/", "%d", " ", "%H", ":", "%M", ":", "%S">>,
    <<"%Y", "/", "%m", "/", "%d", " ", "%H", ":", "%M">>
>>

\* lines 427-438
date_formats == <<
    <<"%Y", "-", "%m", "-", "%d">>,
    <<"%m", "/", "%d", "/", "%Y">>,
    <<"%d", "/", "%m", "/", "%Y">>,
    <<"%d", "-", "%m", "-", "%Y">>,
    <<"%Y", "/", "%m", "/", "%d">>,
    <<"%d", ".", "%m", ".", "%Y">>,
    <<"%m", "-", "%d", "-", "%Y">>,
    <<"%m", ".", "%d", ".", "%Y">>,
    <<"%d", "/", "%m", "/", "%y">>,
    <<"%m", "/", "%d", "/", "%y">>
>>

(***************************************************************************)
(* re.search over a pattern of greedy bounded repetitions of character     *)
(* classes: the leftmost match, each repetition as long as the rest of the *)
(* pattern allows.                                                         *)
(***************************************************************************)
InCls(cls, c) == IF cls = "digit" THEN IsDigit(c) ELSE c \in {"/", "-"}
Rx(cls, lo, hi) == [cls |-> cls, lo |-> lo, hi |-> hi]

RECURSIVE RxMatchAt(_, _, _)
RECURSIVE RxTry(_, _, _, _)
\* the position after the match of pat at i, 0 when there is none
RxMatchAt(pat, s, i) == IF pat = <<>> THEN i ELSE RxTry(pat, s, i, pat[1].hi)
RxTry(pat, s, i, n) ==
    IF n < pat[1].lo THEN 0
    ELSE IF i + n - 1 <= Len(s) /\ \A j \in i..(i + n - 1) : InCls(pat[1].cls, s[j])
    THEN With(RxMatchAt(Tail(pat), s, i + n), LAMBDA r :
         IF r # 0 THEN r ELSE RxTry(pat, s, i, n - 1))
    ELSE RxTry(pat, s, i, n - 1)

RECURSIVE RxSearchFrom(_, _, _)
\* match.group(1), <<>> when the pattern is not found
RxSearchFrom(pat, s, i) ==
    IF i > Len(s) THEN <<>>
    ELSE With(RxMatchAt(pat, s, i), LAMBDA e :
         IF e # 0 THEN SubSeq(s, i, e - 1) ELSE RxSearchFrom(pat, s, i + 1))
RxSearch(pat, s) == RxSearchFrom(pat, s, 1)

\* lines 449-453
date_patterns == <<
    <<Rx("digit", 1, 2), Rx("sep", 1, 1), Rx("digit", 1, 2), Rx("sep", 1, 1), Rx("digit", 4, 4)>>,
    <<Rx("digit", 4, 4), Rx("sep", 1, 1), Rx("digit", 1, 2), Rx("sep", 1, 1), Rx("digit", 1, 2)>>,
    <<Rx("digit", 1, 2), Rx("sep", 1, 1), Rx("digit", 1, 2), Rx("sep", 1, 1), Rx("digit", 2, 2)>>
>>

\* lines 455-467: the first pattern whose extracted part parses
RECURSIVE TryPatterns(_, _)
TryPatterns(s, pats) ==
    IF pats = <<>> THEN None
    ELSE With(RxSearch(Head(pats), s), LAMBDA date_part :
         With(IF date_part = <<>> THEN None ELSE TryFormats(date_part, date_formats),
              LAMBDA parsed :
         IF parsed # None THEN parsed ELSE TryPatterns(s, Tail(pats))))

\* int(value) of a positive number
PyInt(v) == v.n \div Pow10(v.k)

(***************************************************************************)
(* ExcelImportService._parse_date.  dateutil's fuzzy parser is a library   *)
(* outside the repository: fuzzy is its outcome on this string, a date or  *)
(* None when it raises ValueError, TypeError or OverflowError.             *)
(***************************************************************************)
_parse_date(value, fuzzy) ==
    IF ~Truthy(value) THEN None
    ELSE IF value.t \in {"date", "datetime"} THEN value
    ELSE IF value.t = "num" /\ value.n > 0 /\ PyInt(value) <= MaxSerial
    THEN Date(PyInt(value))
    ELSE With(Strip(PyStr(value)), LAMBDA value_str :
         With(TryFormats(value_str, datetime_formats), LAMBDA p1 :
         IF p1 # None THEN p1
         ELSE With(TryFormats(value_str, date_formats), LAMBDA p2 :
              IF p2 # None THEN p2
              ELSE With(TryPatterns(value_str, date_patterns), LAMBDA p3 :
                   IF p3 # None THEN p3 ELSE fuzzy))))

(***************************************************************************)
(* str.lower() / str.upper() over the ASCII letters                        *)
(***************************************************************************)
LowerAlpha == <<"a", "b", "c", "d", "e", "f", "g", "h", "i", "j", "k", "l", "m",
                "n", "o", "p", "q", "r", "s", "t", "u", "v", "w", "x", "y", "z">>
UpperAlpha == <<"A", "B", "C", "D", "E", "F", "G", "H", "I", "J", "K", "L", "M",
                "N", "O", "P", "Q", "R", "S", "T", "U", "V", "W", "X", "Y", "Z">>
LowerChar(c) ==
    IF \E i \in 1..26 : UpperAlpha[i] = c
    THEN LowerAlpha[CHOOSE i \in 1..26 : UpperAlpha[i] = c] ELSE c
UpperChar(c) ==
    IF \E i \in 1..26 : LowerAlpha[i] = c
    THEN UpperAlpha[CHOOSE i \in 1..26 : LowerAlpha[i] = c] ELSE c
Lower(s) == [i \in 1..Len(s) |-> LowerChar(s[i])]
Upper(s) == [i \in 1..Len(s) |-> UpperChar(s[i])]

(***************************************************************************)
(* ExcelImportService.COLUMN_MAPPINGS, in declaration order                *)
(***************************************************************************)
COLUMN_MAPPINGS == <<
    [field |-> "id", aliases |-> {
        <<"i", "d">>,
        <<"u", "u", "i", "d">>,
        <<"e", "x", "p", "e", "n", "s", "e", "_", "i", "d">>}],
    [field |-> "date", aliases |-> {
        <<"d", "a", "t", "e">>,
        <<"t", "a", "n", "g", "g", "a", "l">>,
        <<"t", "r", "a", "n", "s", "a", "c", "t", "i", "o", "n", " ", "d", "a", "t", "e">>,
        <<"e", "x", "p", "e", "n", "s", "e", " ", "d", "a", "t", "e">>,
        <<"t", "i", "m", "e", "s", "t", "a", "m", "p">>}],
    [field |-> "amount", aliases |-> {
        <<"a", "m", "o", "u", "n", "t">>,
        <<"j", "u", "m", "l", "a", "h">>,
        <<"t", "o", "t", "a", "l">>,
        <<"p", "r", "i", "c", "e">>,
        <<"h", "a", "r", "g", "a">>,
        <<"v", "a", "l", "u", "e">>}],
    [field |-> "description", aliases |-> {
        <<"d", "e", "s", "c", "r", "i", "p", "t", "i", "o", "n">>,
        <<"d", "e", "s", "k", "r", "i", "p", "s", "i">>,
        <<"n", "o", "t", "e">>,
        <<"n", "o", "t", "e", "s">>,
        <<"d", "e", "t", "a", "i", "l">>,
        <<"i", "t", "e", "m">>,
        <<"m", "e", "r", "c", "h", "a", "n", "t">>,
        <<"s", "t", "o", "r", "e">>}],
    [field |-> "name", aliases |-> {
        <<"n", "a", "m", "e">>}],
    [field |-> "rawtext", aliases |-> {
        <<"r", "a", "w", "t", "e", "x", "t">>,
        <<"r", "a", "w", " ", "t", "e", "x", "t">>}],
    [field |-> "category", aliases |-> {
        <<"c", "a", "t", "e", "g", "o", "r", "y">>,
        <<"k", "a", "t", "e", "g", "o", "r", "i">>,
        <<"t", "y", "p", "e">>,
        <<"j", "e", "n", "i", "s">>}],
    [field |-> "location", aliases |-> {
        <<"l", "o", "c", "a", "t", "i", "o", "n">>,
        <<"l", "o", "k", "a", "s", "i">>,
        <<"p", "l", "a", "c", "e">>,
        <<"t", "e", "m", "p", "a", "t">>}],
    [field |-> "notes", aliases |-> {
        <<"n", "o", "t", "e", "s">>,
        <<"n", "o", "t", "e">>,
        <<"c", "a", "t", "a", "t", "a", "n">>,
        <<"r", "e", "m", "a", "r", "k", "s">>,
        <<"k", "e", "t", "e", "r", "a", "n", "g", "a", "n">>}],
    [field |-> "who", aliases |-> {
        <<"w", "h", "o">>}],
    [field |-> "currency", aliases |-> {
        <<"c", "u", "r", "r", "e", "n", "c", "y">>,
        <<"m", "a", "t", "a", " ", "u", "a", "n", "g">>,
        <<"m", "a", "t", "a", "u", "a", "n", "g">>}],
    [field |-> "tags", aliases |-> {
        <<"t", "a", "g", "s">>,
        <<"t", "a", "g">>,
        <<"l", "a", "b", "e", "l">>}]
>>

\* a dict as a function; d.get(k) is None for a missing key
EmptyDict == <<>>
Has(d, k) == k \in DOMAIN d
Get(d, k) == IF k \in DOMAIN d THEN d[k] ELSE None
Put(d, k, v) == [x \in (DOMAIN d) \cup {k} |-> IF x = k THEN v ELSE d[x]]

(***************************************************************************)
(* ExcelImportService._detect_columns.  A worksheet is a sequence of rows, *)
(* a row the sequence of its cell values; max_row is the number of rows.   *)
(***************************************************************************)
\* lines 132-136: the first field, in declaration order, that has the alias
\* and is not mapped yet
RECURSIVE MatchField(_, _, _)
MatchField(cell_value, column_map, i) ==
    IF i > Len(COLUMN_MAPPINGS) THEN ""
    ELSE IF cell_value \in COLUMN_MAPPINGS[i].aliases
            /\ ~Has(column_map, COLUMN_MAPPINGS[i].field)
    THEN COLUMN_MAPPINGS[i].field
    ELSE MatchField(cell_value, column_map, i + 1)

\* lines 124-136: one header cell
ScanCell(column_map, cell, col_idx) ==
    IF ~Truthy(cell) THEN column_map
    ELSE With(MatchField(Lower(Strip(PyStr(cell))), column_map, 1), LAMBDA field :
         IF field = "" THEN column_map ELSE Put(column_map, field, col_idx))

RECURSIVE ScanRow(_, _, _)
ScanRow(column_map, row, col_idx) ==
    IF col_idx > Len(row) THEN column_map
    ELSE ScanRow(ScanCell(column_map, row[col_idx], col_idx), row, col_idx + 1)

\* lines 140-145
HasRequired(column_map) ==
    /\ Has(column_map, "date")
    /\ Has(column_map, "amount")
    /\ (Has(column_map, "description") \/ Has(column_map, "name")
            \/ Has(column_map, "rawtext"))

Min(a, b) == IF a < b THEN a ELSE b

\* line 120: range(1, min(4, max_row + 1))
HeaderScanEnd == 4

\* a scan that goes through the whole header window without stopping
RECURSIVE ScanRows_NoStop(_, _, _)
ScanRows_NoStop(column_map, ws, row_num) ==
    IF row_num >= Min(HeaderScanEnd, Len(ws) + 1) THEN column_map
    ELSE With(ScanRow(column_map, ws[row_num], 1), LAMBDA scanned :
         IF HasRequired(scanned) /\ FALSE THEN scanned
         ELSE ScanRows_NoStop(scanned, ws, row_num + 1))

\* lines 120-147: the loop over the rows of the header window
RECURSIVE ScanRows(_, _, _)
ScanRows(column_map, ws, row_num) ==
    IF row_num >= Min(HeaderScanEnd, Len(ws) + 1) THEN column_map
    ELSE With(ScanRow(column_map, ws[row_num], 1), LAMBDA scanned :
         IF HasRequired(scanned) THEN scanned
         ELSE ScanRows(scanned, ws, row_num + 1))

_detect_columns(ws) == ScanRows(EmptyDict, ws, 1)

(***************************************************************************)
(* ExcelImportService._extract_row.  row_data is a dict from field to      *)
(* value; a str stored in it is Str(<<chars>>).                            *)
(***************************************************************************)
\* lines 164-194: the value taken from a cell of the given field
CellValue(field, value) ==
    IF field # "date" THEN value
    ELSE IF value.t = "datetime" THEN Date(value.ord)
    ELSE IF value.t = "date" THEN value
    ELSE IF value.t = "num" /\ value.n > 0 /\ PyInt(value) <= MaxSerial
    THEN Date(PyInt(value))
    ELSE value

\* lines 161-198
ExtractFields(column_map, row) ==
    [f \in {g \in DOMAIN column_map :
                /\ column_map[g] <= Len(row)
                /\ CellValue(g, row[column_map[g]]) # None}
        |-> CellValue(f, row[column_map[f]])]

\* a or b or c
PyOr3(a, b, c) == IF Truthy(a) THEN a ELSE IF Truthy(b) THEN b ELSE c

\* lines 200-229
SynthesizeDescription(row_data) ==
    With(Has(row_data, "name") /\ Truthy(row_data["name"]), LAMBDA hasName :
    With(IF hasName THEN <<Strip(PyStr(row_data["name"]))>> ELSE <<>>, LAMBDA parts0 :
    With(Has(row_data, "rawtext") /\ Truthy(row_data["rawtext"]), LAMBDA hasRaw :
    With(IF hasRaw THEN Strip(PyStr(row_data["rawtext"])) ELSE <<>>, LAMBDA rawtext_value :
    With(/\ hasRaw
         /\ rawtext_value # <<>>
         /\ (parts0 = <<>> \/ parts0[1] # rawtext_value), LAMBDA useRaw :
    With(IF useRaw /\ parts0 = <<>> THEN <<rawtext_value>> ELSE parts0, LAMBDA parts :
    With(IF useRaw /\ parts0 # <<>>
         THEN Put(row_data, "notes", Str(rawtext_value))
         ELSE row_data, LAMBDA rd1 :
    IF parts # <<>> THEN Put(rd1, "description", Str(parts[1]))
    ELSE IF ~Has(rd1, "description") \/ ~Truthy(rd1["description"])
    THEN Put(rd1, "description",
             PyOr3(Get(rd1, "name"), Get(rd1, "rawtext"), Str(<<>>)))
    ELSE rd1)))))))

\* lines 231-240
AppendWho(row_data) ==
    IF Has(row_data, "who") /\ Truthy(row_data["who"])
    THEN With(Strip(PyStr(row_data["who"])), LAMBDA who_value :
         With(IF Has(row_data, "notes") THEN row_data["notes"] ELSE Str(<<>>),
              LAMBDA existing_notes :
         IF who_value = <<>> THEN row_data
         ELSE IF Truthy(existing_notes)
         THEN Put(row_data, "notes",
                  Str(PyStr(existing_notes) \o <<" ", "(", "b", "y", " ">>
                         \o who_value \o <<")">>))
         ELSE Put(row_data, "notes", Str(<<"b", "y", " ">> \o who_value))))
    ELSE row_data

\* None for a row without data (lines 242-245), else the row's dict
_extract_row(column_map, row) ==
    With(AppendWho(SynthesizeDescription(ExtractFields(column_map, row))), LAMBDA row_data :
    IF DOMAIN row_data = {} THEN None ELSE row_data)

(***************************************************************************)
(* ExcelImportService._validate_row.  The result holds the error message   *)
(* (None, or the list of messages that "; ".join concatenates) and the     *)
(* row's dict as the method leaves it.                                     *)
(***************************************************************************)
Msg(m, v) == [msg |-> m, value |-> v]

\* lines 255-291: the date the row is left with
ValidateDate(row_data, fuzzy) ==
    IF ~Has(row_data, "date") \/ ~Truthy(row_data["date"]) THEN Today
    ELSE IF row_data["date"].t = "datetime" THEN Date(row_data["date"].ord)
    ELSE IF row_data["date"].t = "date" THEN row_data["date"]
    ELSE With(_parse_date(row_data["date"], fuzzy), LAMBDA parsed_date :
         IF ~Truthy(parsed_date) THEN Today
         ELSE IF parsed_date.t = "datetime" THEN Date(parsed_date.ord)
         ELSE parsed_date)

\* a date rule that rejects the row when nothing parses
DateErrors_Reject(row_data, fuzzy) ==
    IF Has(row_data, "date") /\ Truthy(row_data["date"])
        /\ row_data["date"].t \notin {"date", "datetime"}
        /\ ~Truthy(_parse_date(row_data["date"], fuzzy))
    THEN <<Msg("Invalid date", row_data["date"])>>
    ELSE <<>>

\* lines 255-291: the messages the date adds to errors (none)
DateErrors(row_data, fuzzy) == <<>>

\* lines 293-306
AmountErrors(row_data) ==
    IF ~Has(row_data, "amount") THEN <<Msg("Amount is required", None)>>
    ELSE IF _parse_amount(row_data["amount"]) = None
    THEN <<Msg("Invalid amount", row_data["amount"])>>
    ELSE <<>>

ValidateAmount(row_data) ==
    IF ~Has(row_data, "amount") THEN row_data
    ELSE With(_parse_amount(row_data["amount"]), LAMBDA amount :
         IF amount # None THEN Put(row_data, "amount", amount) ELSE row_data)

\* line 314
DescriptionMax == 500

\* lines 308-318
DescriptionErrors(row_data) ==
    IF ~Has(row_data, "description") \/ ~Truthy(row_data["description"])
    THEN <<Msg("Description is required", None)>>
    ELSE IF Len(Strip(PyStr(row_data["description"]))) > DescriptionMax
    THEN <<Msg("Description too long (max 500 characters)", None)>>
    ELSE <<>>

ValidateDescription(row_data) ==
    IF Has(row_data, "description") /\ Truthy(row_data["description"])
    THEN Put(row_data, "description", Str(Strip(PyStr(row_data["description"]))))
    ELSE row_data

DefaultCurrency == <<"I", "D", "R">>

\* lines 321-331
ValidateCurrency(row_data) ==
    IF Has(row_data, "currency") /\ Truthy(row_data["currency"])
    THEN With(Upper(Strip(PyStr(row_data["currency"]))), LAMBDA currency :
         IF Len(currency) = 3 THEN Put(row_data, "currency", Str(currency))
         ELSE Put(row_data, "currency", Str(DefaultCurrency)))
    ELSE Put(row_data, "currency", Str(DefaultCurrency))

\* line 335
LocationMax == 200

\* lines 333-340
ValidateLocation(row_data) ==
    IF Has(row_data, "location") /\ Truthy(row_data["location"])
    THEN With(Strip(PyStr(row_data["location"])), LAMBDA location :
         Put(row_data, "location",
             Str(IF Len(location) > LocationMax THEN SubSeq(location, 1, LocationMax)
                 ELSE location)))
    ELSE Put(row_data, "location", None)

\* lines 342-346
ValidateNotes(row_data) ==
    IF Has(row_data, "notes") /\ Truthy(row_data["notes"])
    THEN Put(row_data, "notes", Str(Strip(PyStr(row_data["notes"]))))
    ELSE Put(row_data, "notes", None)

\* str.split(',') with each part stripped, and str.split() on blanks
RECURSIVE SplitComma(_, _)
SplitComma(s, cur) ==
    IF s = <<>> THEN <<Strip(cur)>>
    ELSE IF Head(s) = "," THEN <<Strip(cur)>> \o SplitComma(Tail(s), <<>>)
    ELSE SplitComma(Tail(s), Append(cur, Head(s)))
RECURSIVE SplitBlank(_, _)
SplitBlank(s, cur) ==
    IF s = <<>> THEN (IF cur = <<>> THEN <<>> ELSE <<cur>>)
    ELSE IF IsSpace(Head(s))
    THEN (IF cur = <<>> THEN <<>> ELSE <<cur>>) \o SplitBlank(Tail(s), <<>>)
    ELSE SplitBlank(Tail(s), Append(cur, Head(s)))
NonEmpty(seq) == SelectSeq(seq, LAMBDA x : x # <<>>)

\* lines 348-358
ValidateTags(row_data) ==
    IF Has(row_data, "tags") /\ Truthy(row_data["tags"])
    THEN With(Strip(PyStr(row_data["tags"])), LAMBDA tags_str :
         Put(row_data, "tags",
             NonEmpty(IF IndexOf(tags_str, ",") # 0 THEN SplitComma(tags_str, <<>>)
                      ELSE SplitBlank(tags_str, <<>>))))
    ELSE Put(row_data, "tags", <<>>)

_validate_row(row_data, fuzzy) ==
    With(DateErrors(row_data, fuzzy) \o AmountErrors(row_data)
            \o DescriptionErrors(row_data), LAMBDA errors :
    [error |-> IF errors = <<>> THEN None ELSE [t |-> "msgs", msgs |-> errors],
     row_data |->
        ValidateTags(ValidateNotes(ValidateLocation(ValidateCurrency(
            ValidateDescription(ValidateAmount(
                Put(row_data, "date", ValidateDate(row_data, fuzzy))))))))])

(***************************************************************************)
(* ExcelImportService.parse: (expenses, errors).  fuzzy[row_num] is the    *)
(* outcome of dateutil on the date cell of that row, for the rows whose    *)
(* date cell can reach it.                                                 *)
(***************************************************************************)
StructuralError == [row |-> 0, error |-> "Could not detect required columns"]

\* line 82
FirstDataRow == 2

\* a parse loop that gives up at the first row that fails validation
RECURSIVE ParseRows_StopAtError(_, _, _, _, _)
ParseRows_StopAtError(ws, column_map, fuzzy, row_num, acc) ==
    IF row_num > Len(ws) THEN acc
    ELSE With(_extract_row(column_map, ws[row_num]), LAMBDA row_data :
         IF row_data = None
         THEN ParseRows_StopAtError(ws, column_map, fuzzy, row_num + 1, acc)
         ELSE With(_validate_row(row_data, Get(fuzzy, row_num)), LAMBDA v :
              IF v.error # None
              THEN [acc EXCEPT !.errors = Append(@, [row |-> row_num, error |-> v.error])]
              ELSE ParseRows_StopAtError(ws, column_map, fuzzy, row_num + 1,
                             [acc EXCEPT !.expenses = Append(@, v.row_data)])))

\* lines 82-105: the loop over the rows from FirstDataRow on
RECURSIVE ParseRows(_, _, _, _, _)
ParseRows(ws, column_map, fuzzy, row_num, acc) ==
    IF row_num > Len(ws) THEN acc
    ELSE With(_extract_row(column_map, ws[row_num]), LAMBDA row_data :
         IF row_data = None
         THEN ParseRows(ws, column_map, fuzzy, row_num + 1, acc)
         ELSE With(_validate_row(row_data, Get(fuzzy, row_num)), LAMBDA v :
              IF v.error # None
              THEN ParseRows(ws, column_map, fuzzy, row_num + 1,
                             [acc EXCEPT !.errors =
                                Append(@, [row |-> row_num, error |-> v.error])])
              ELSE ParseRows(ws, column_map, fuzzy, row_num + 1,
                             [acc EXCEPT !.expenses = Append(@, v.row_data)])))

parse(ws, fuzzy) ==
    With(_detect_columns(ws), LAMBDA column_map :
    IF DOMAIN column_map = {}
    THEN [expenses |-> <<>>, errors |-> <<StructuralError>>, column_map |-> column_map]
    ELSE ParseRows(ws, column_map, fuzzy, FirstDataRow,
                   [expenses |-> <<>>, errors |-> <<>>, column_map |-> column_map]))

(***************************************************************************)
(* Pure-function harness                                                   *)
(***************************************************************************)
RECURSIVE SeqsUpTo(_, _)
SeqsUpTo(S, n) ==
    IF n = 0 THEN {<<>>}
    ELSE With(SeqsUpTo(S, n - 1), LAMBDA shorter :
         shorter \cup {Append(s, c) : s \in {x \in shorter : Len(x) = n - 1}, c \in S})

AmtAlphabet == {"1", "0", ".", ",", "-", "R"}

S_1_000_000 == <<"1", ".", "0", "0", "0", ".", "0", "0", "0">>
S_1_234_56 == <<"1", ".", "2", "3", "4", ",", "5", "6">>
S_1_5 == <<"1", ".", "5">>
S_Rp_50_000 == <<"R", "p", " ", "5", "0", ".", "0", "0", "0">>

AmountInputs ==
    {Str(s) : s \in SeqsUpTo(AmtAlphabet, MaxAmtLen)
                    \cup {S_1_000_000, S_1_234_56, S_1_5, S_Rp_50_000}}
    \cup {Num(50, 0), Num(0, 0), Num(-5, 0), Num(15, 1), None}

\* the import run is not started in the specifications of single functions
LocalIdle ==
    /\ skip_existing = FALSE
    /\ batch_size = 1
    /\ batch_num = 0
    /\ failed_count = 0
    /\ commit_failed = FALSE

RunIdle ==
    /\ pc = "idle"
    /\ file = "ok"
    /\ workbook = [sheetnames |-> {}, cats |-> <<>>, sheet |-> <<>>]
    /\ categories = <<>>
    /\ expenses = <<>>
    /\ next_id = 1
    /\ category_id_map = EmptyDict
    /\ categories_imported = 0
    /\ cat_row = 0
    /\ expenses_data = <<>>
    /\ parse_errors = <<>>
    /\ all_categories = <<>>
    /\ idx = 0
    /\ imported_count = 0
    /\ failed_rows = <<>>
    /\ category_matches = EmptyDict
    /\ uncategorized_count = 0
    /\ skipped_count = 0
    /\ response = NotCalled
    /\ LocalIdle

FnIdle ==
    /\ call = "none"
    /\ arg = None
    /\ ret = NotCalled

InitAmount ==
    /\ call = "_parse_amount"
    /\ arg \in AmountInputs
    /\ ret = NotCalled
    /\ RunIdle

CallParseAmount ==
    /\ call = "_parse_amount"
    /\ ret = NotCalled
    /\ ret' = _parse_amount(arg)
    /\ UNCHANGED <<call, arg, runVars>>

NextAmount == CallParseAmount

SpecAmount == InitAmount /\ [][NextAmount]_vars

(***************************************************************************)
(* C10: amount parsing of string cells yields "1.000.000" -> 1000000,      *)
(* "1.234,56" -> 1234.56, "1.5" -> 1.5 and "Rp 50.000" -> 50000.           *)
(* The code removes ',' together with the currency symbols, so "1.234,56"  *)
(* becomes "1.23456", whose single '.' is followed by more than two        *)
(* digits and is removed as well: the result is 123456.                    *)
(***************************************************************************)
C10_AmountExamples ==
    (call = "_parse_amount" /\ ret # NotCalled) =>
        /\ (arg = Str(S_1_000_000) => ret = Num(1000000, 0))
        /\ (arg = Str(S_1_234_56) => ret = Num(123456, 2))
        /\ (arg = Str(S_1_5) => ret = Num(15, 1))
        /\ (arg = Str(S_Rp_50_000) => ret = Num(50000, 0))

\* what the code computes for the four examples
C10_AmountExamplesAsCoded ==
    (call = "_parse_amount" /\ ret # NotCalled) =>
        /\ (arg = Str(S_1_000_000) => ret = Num(1000000, 0))
        /\ (arg = Str(S_1_234_56) => ret = Num(123456, 0))
        /\ (arg = Str(S_1_5) => ret = Num(15, 1))
        /\ (arg = Str(S_Rp_50_000) => ret = Num(50000, 0))

(***************************************************************************)
(* The store (SQLAlchemy session over the categories and expenses tables)  *)
(* and uuid.UUID.  A uuid is a number; its str() is UuidLen hex digits.    *)
(***************************************************************************)
HexDigits == <<"0", "1", "2", "3", "4", "5", "6", "7", "8", "9",
               "a", "b", "c", "d", "e", "f">>
IsHex(c) == \E i \in 1..16 : HexDigits[i] = LowerChar(c)
HexVal(c) == (CHOOSE i \in 1..16 : HexDigits[i] = LowerChar(c)) - 1

RECURSIVE HexStr(_)
HexStr(n) ==
    IF n < 16 THEN <<HexDigits[n + 1]>>
    ELSE HexStr(n \div 16) \o <<HexDigits[(n % 16) + 1]>>
UuidStr(n) == ZeroPad(HexStr(n), UuidLen)

RECURSIVE HexStrVal(_)
HexStrVal(s) ==
    IF s = <<>> THEN 0
    ELSE 16 * HexStrVal(SubSeq(s, 1, Len(s) - 1)) + HexVal(s[Len(s)])

\* UUID(s): the uuid, or -1 for ValueError
ParseUUID(s) ==
    With(RemoveChars(s, {"-", "{", "}"}), LAMBDA hex :
    IF Len(hex) = UuidLen /\ \A i \in 1..Len(hex) : IsHex(hex[i])
    THEN HexStrVal(hex) ELSE -1)

\* db.query(Model).filter(<field> == v).first(): None when there is no row
RECURSIVE FirstWhere(_, _, _)
FirstWhere(table, field, v) ==
    IF table = <<>> THEN None
    ELSE IF Head(table)[field] = v THEN Head(table)
    ELSE FirstWhere(Tail(table), field, v)

\* a in b, for str
IsSubstr(a, b) ==
    \E i \in 0..(Len(b) - Len(a)) : SubSeq(b, i + 1, i + Len(a)) = a

(***************************************************************************)
(* import_excel, category matching (lines 202-296)                         *)
(***************************************************************************)
\* {cat.name.lower(): cat for cat in all_categories}: insertion order of the
\* keys, the last category of a key
RECURSIVE NameLowerMap(_, _)
NameLowerMap(cats, acc) ==
    IF cats = <<>> THEN acc
    ELSE With({i \in 1..Len(acc) : acc[i].key = Lower(Head(cats).name)}, LAMBDA at :
         IF at = {}
         THEN NameLowerMap(Tail(cats),
                Append(acc, [key |-> Lower(Head(cats).name), cat |-> Head(cats)]))
         ELSE NameLowerMap(Tail(cats),
                [acc EXCEPT ![CHOOSE i \in at : TRUE].cat = Head(cats)]))

MapGet(m, k) ==
    With({i \in 1..Len(m) : m[i].key = k}, LAMBDA at :
    IF at = {} THEN None ELSE m[CHOOSE i \in at : TRUE].cat)

\* characters of the emoji ranges of lines 214-223 in the model's alphabet
EmojiChars == {"U+2708", "U+1F354"}

\* lines 211-225
normalize_category_name(category_str) == Strip(RemoveChars(category_str, EmojiChars))

\* lines 277-282: the first entry whose name contains the value or is contained
RECURSIVE FuzzyMatch(_, _)
FuzzyMatch(m, normalized_lower) ==
    IF m = <<>> THEN None
    ELSE IF IsSubstr(normalized_lower, Head(m).key) \/ IsSubstr(Head(m).key, normalized_lower)
    THEN Head(m).cat
    ELSE FuzzyMatch(Tail(m), normalized_lower)

\* lines 255-282
MatchHint(expense_data, cats) ==
    IF Has(expense_data, "category") /\ Truthy(expense_data["category"])
    THEN With(NameLowerMap(cats, <<>>), LAMBDA m :
         With(Strip(PyStr(expense_data["category"])), LAMBDA category_value :
         With(MapGet(m, Lower(category_value)), LAMBDA exact :
         IF exact # None THEN exact
         ELSE With(Lower(normalize_category_name(category_value)), LAMBDA normalized_lower :
              With(MapGet(m, normalized_lower), LAMBDA normalized :
              IF normalized # None THEN normalized
              ELSE FuzzyMatch(m, normalized_lower))))))
    ELSE None

\* a nullable UUID column holds None or Uuid(n)
Uuid(n) == [t |-> "uuid", v |-> n]

\* lines 242-253: the category id of the stored expense the row's id names
ExpenseCategoryId(expense_data, expense_table) ==
    IF Has(expense_data, "id") /\ Truthy(expense_data["id"])
    THEN With(ParseUUID(PyStr(expense_data["id"])), LAMBDA expense_id :
         With(IF expense_id = -1 THEN None
              ELSE FirstWhere(expense_table, "id", expense_id), LAMBDA existing_expense :
         IF existing_expense # None /\ existing_expense.category_id # None
         THEN existing_expense.category_id
         ELSE None))
    ELSE None

\* lines 284-296
MatchLegacy(expense_category_id, id_map, category_table) ==
    With(Get(id_map, UuidStr(expense_category_id.v)), LAMBDA mapped_id :
    IF mapped_id # None
    THEN FirstWhere(category_table, "id", mapped_id.v)
    ELSE FirstWhere(category_table, "id", expense_category_id.v))

\* lines 240-296: matched_category
MatchCategory(expense_data, cats, id_map, category_table, expense_table) ==
    With(MatchHint(expense_data, cats), LAMBDA by_hint :
    IF by_hint # None THEN by_hint
    ELSE With(ExpenseCategoryId(expense_data, expense_table), LAMBDA expense_category_id :
         IF expense_category_id # None
         THEN MatchLegacy(expense_category_id, id_map, category_table)
         ELSE None))

\* an ExpenseCreate whose description has no minimum length
ExpenseCreateRaises_NoMinLength(expense_data) ==
    \/ expense_data["amount"].t # "num" \/ expense_data["amount"].n <= 0
    \/ expense_data["description"].t # "str"
    \/ Len(expense_data["description"].s) > DescriptionMax
    \/ expense_data["date"].t # "date"
    \/ Len(expense_data["currency"].s) > 3
    \/ (expense_data["location"] # None /\ Len(expense_data["location"].s) > LocationMax)

\* ExpenseCreate(...): TRUE when pydantic raises ValidationError
ExpenseCreateRaises(expense_data) ==
    \/ expense_data["amount"].t # "num" \/ expense_data["amount"].n <= 0
    \/ expense_data["description"].t # "str"
    \/ Len(expense_data["description"].s) < 1
    \/ Len(expense_data["description"].s) > DescriptionMax
    \/ expense_data["date"].t # "date"
    \/ Len(expense_data["currency"].s) > 3
    \/ (expense_data["location"] # None /\ Len(expense_data["location"].s) > LocationMax)

\* Expense(**expense_create.model_dump())
NewExpense(id, expense_data, category_id) ==
    [id |-> id,
     amount |-> expense_data["amount"],
     currency |-> expense_data["currency"],
     description |-> expense_data["description"],
     category_id |-> category_id,
     date |-> expense_data["date"],
     tags |-> expense_data["tags"],
     location |-> expense_data["location"],
     notes |-> expense_data["notes"]]

(***************************************************************************)
(* Inputs: the uploaded workbook and the store the run starts from         *)
(***************************************************************************)
S_ID == <<"I", "D">>
S_ID_lower == <<"i", "d">>
S_Name_lower == <<"n", "a", "m", "e">>
S_Name == <<"N", "a", "m", "e">>
S_Date == <<"D", "a", "t", "e">>
S_Amount == <<"A", "m", "o", "u", "n", "t">>
S_Description == <<"D", "e", "s", "c", "r", "i", "p", "t", "i", "o", "n">>
S_Category == <<"C", "a", "t", "e", "g", "o", "r", "y">>
S_Food == <<"F", "o", "o", "d">>
S_food == <<"f", "o", "o", "d">>
S_New == <<"N", "e", "w">>
S_Lunch == <<"L", "u", "n", "c", "h">>
S_Taxi == <<"T", "a", "x", "i">>
S_Pay == <<"P", "a", "y">>
S_Bus == <<"B", "u", "s">>
S_abc == <<"a", "b", "c">>
S_soon == <<"s", "o", "o", "n">>
S_restaurant == <<"r", "e", "s", "t", "a", "u", "r", "a", "n", "t">>
S_Food_Dining == <<"F", "o", "o", "d", " ", "&", " ", "D", "i", "n", "i", "n", "g">>
S_timestamp == <<"1", "/", "1", "/", "2", "0", "2", "6", " ", "2", "0", ":", "5", "5", ":", "4", "7">>

\* the store before the run: one category, one expense of that category
InitialCategories == <<[id |-> 1, name |-> S_Food]>>
InitialExpenses ==
    <<[id |-> 2, amount |-> Num(9, 0), currency |-> Str(DefaultCurrency),
       description |-> Str(S_Lunch), category_id |-> [t |-> "uuid", v |-> 1],
       date |-> Date(DaysFromCivil(2026, 1, 1)), tags |-> <<>>,
       location |-> None, notes |-> None]>>
FoodId == InitialCategories[1].id
OldExpenseId == InitialExpenses[1].id
FirstFreshId == OldExpenseId + 1

\* rows of the first sheet: id, date, amount, description, category
HFull == <<Str(S_ID), Str(S_Date), Str(S_Amount), Str(S_Description), Str(S_Category)>>
HNoDesc == <<None, Str(S_Date), Str(S_Amount), None, None>>
HNoDate == <<None, None, Str(S_Amount), Str(S_Description), Str(S_Category)>>
HNone == <<None, None, None, Str(S_abc), None>>
ROk == <<None, Date(DaysFromCivil(2026, 3, 1)), Num(50, 0), Str(S_Lunch), Str(S_food)>>
RBadAmt == <<None, Date(DaysFromCivil(2026, 3, 2)), Str(S_abc), Str(S_Taxi), None>>
RNeg == <<None, Str(S_soon), Num(-5, 0), Str(S_Pay), None>>
RZero == <<None, None, Str(<<"0">>), Str(S_Pay), None>>
RBlank == <<None, Str(S_timestamp), Str(S_Rp_50_000), Str(<<" ">>), None>>
RLegacy == <<Str(UuidStr(OldExpenseId)), DateTime(DaysFromCivil(2026, 3, 3), 75347),
             Num(15, 1), Str(S_Bus), None>>
REmpty == <<None, None, None, None, None>>

\* descriptions at and beyond the limit of line 314, with blanks around them
S_Max == [i \in 1..DescriptionMax |-> "x"]
S_Long == [i \in 1..DescriptionMax + 1 |-> "x"]
RMax == <<None, Date(DaysFromCivil(2026, 3, 4)), Num(7, 0), Str(<<" ">> \o S_Max \o <<" ">>), None>>
RLong == <<None, Date(DaysFromCivil(2026, 3, 5)), Num(8, 0), Str(S_Long), None>>

DataRows == {ROk, RBadAmt, RNeg, RZero, RBlank, RLegacy, REmpty}
EdgeRows == {ROk, RBlank, RMax, RLong}
SheetsEdge == {<<HFull, r1, r2>> : r1 \in {RMax, RLong}, r2 \in EdgeRows}
SheetsMain == {<<HFull>> \o rows : rows \in SeqsUpTo(DataRows, MaxDataRows)}

\* header layouts: rows above the header, the header, a few rows below it
Leads == {<<>>, <<REmpty>>, <<REmpty, REmpty>>, <<REmpty, REmpty, REmpty>>}
Headers == {HFull, HNoDesc, HNoDate, HNone}
LayoutRows == {ROk, RLegacy}
SheetsLayout ==
    {lead \o <<h>> \o rows :
        lead \in Leads, h \in Headers, rows \in SeqsUpTo(LayoutRows, MaxLayoutRows)}

\* the Categories sheet: id, name
CatHeader == <<Str(S_ID), Str(S_Name)>>
CatExisting == <<None, Str(S_Food)>>
CatNew == <<Str(UuidStr(FoodId)), Str(S_New)>>
CatSheets == {<<CatHeader, CatExisting>>, <<CatHeader, CatNew>>,
              <<REmpty, CatHeader, CatNew, CatExisting, CatNew>>}

\* a store seeded with the category "Food & Dining" in place of "Food", and
\* sheets for it: rows with a hint, with the id of a stored expense, and
\* without either ("restaurant" is a predefined keyword, "Taxi" is none of
\* the seeded category)
MaxSeededRows == 2
NoSheet == <<>>
SeededCategories == <<[id |-> FoodId, name |-> S_Food_Dining]>>
RRestaurant == <<None, Date(DaysFromCivil(2026, 3, 6)), Num(12, 0), Str(S_restaurant), None>>
RTaxi == <<None, Date(DaysFromCivil(2026, 3, 7)), Num(20, 0), Str(S_Taxi), None>>
SeededRows == {ROk, RLegacy, RRestaurant, RTaxi}
SheetsSeeded == {<<HFull>> \o rows : rows \in SeqsUpTo(SeededRows, MaxSeededRows)}
SeededWorkbooks ==
    {[sheetnames |-> {"Expenses"}, cats |-> NoSheet, sheet |-> s] : s \in SheetsSeeded}

\* a row that names the stored expense and carries a hint, in a workbook
\* whose Categories sheet maps the legacy id of "Food" to the new category
RLegacyHinted == <<Str(UuidStr(OldExpenseId)), Date(DaysFromCivil(2026, 3, 8)),
                   Num(30, 0), Str(S_Bus), Str(S_food)>>
LegacyWorkbooks ==
    {[sheetnames |-> {"Categories", "Expenses"}, cats |-> <<CatHeader, CatNew>>, sheet |-> s] :
        s \in {<<HFull, RLegacyHinted>>, <<HFull, RLegacy, RLegacyHinted>>}}

\* sheetnames is wb.sheetnames; cats is wb['Categories'], sheet is wb.active
Workbooks ==
    {[sheetnames |-> {"Expenses"}, cats |-> NoSheet, sheet |-> s] :
        s \in SheetsMain \cup SheetsLayout \cup SheetsEdge}
    \cup {[sheetnames |-> {"Categories", "Expenses"}, cats |-> c, sheet |-> s] :
            c \in CatSheets, s \in SheetsLayout}
    \cup LegacyWorkbooks

FileProblems == {"no filename", "invalid file type", "file too large", "unreadable"}

InitStore ==
    /\ categories = InitialCategories
    /\ expenses = InitialExpenses
    /\ next_id = FirstFreshId

InitSeededStore ==
    /\ categories = SeededCategories
    /\ expenses = InitialExpenses
    /\ next_id = FirstFreshId

InitRun ==
    /\ pc = "start"
    /\ \/ file = "ok" /\ workbook \in Workbooks /\ InitStore
       \/ file = "ok" /\ workbook \in SeededWorkbooks /\ InitSeededStore
       \/ file \in FileProblems /\ workbook = [sheetnames |-> {"Expenses"}, cats |-> NoSheet, sheet |-> <<HFull, ROk>>] /\ InitStore
    /\ category_id_map = EmptyDict
    /\ categories_imported = 0
    /\ cat_row = 0
    /\ expenses_data = <<>>
    /\ parse_errors = <<>>
    /\ all_categories = <<>>
    /\ idx = 0
    /\ imported_count = 0
    /\ failed_rows = <<>>
    /\ category_matches = EmptyDict
    /\ uncategorized_count = 0
    /\ skipped_count = 0
    /\ response = NotCalled
    /\ LocalIdle

Init == InitRun /\ FnIdle

(***************************************************************************)
(* import_excel (app/api/import_api.py), one action per step of the run    *)
(***************************************************************************)
HttpError(status, detail) == [success |-> FALSE, status |-> status, detail |-> detail]

\* line 95
CatHeaders(row) ==
    [i \in 1..Len(row) |-> IF Truthy(row[i]) THEN Lower(Strip(PyStr(row[i]))) ELSE <<>>]

\* line 93: range(1, min(11, max_row + 1))
CatHeaderScanEnd == 11

\* lines 92-98: the header row of the Categories sheet, 0 when there is none
RECURSIVE FindCatHeader(_, _)
FindCatHeader(ws, row_idx) ==
    IF row_idx >= Min(CatHeaderScanEnd, Len(ws) + 1) THEN 0
    ELSE IF \E i \in 1..Len(ws[row_idx]) :
                CatHeaders(ws[row_idx])[i] \in {S_Name_lower, S_ID_lower}
    THEN row_idx
    ELSE FindCatHeader(ws, row_idx + 1)

\* lines 102-107: col_map[header_name], 0 when the header is absent
CatCol(header_cells, header_name) ==
    With({i \in 1..Len(header_cells) :
            Truthy(header_cells[i])
            /\ Lower(Strip(PyStr(header_cells[i]))) = header_name}, LAMBDA at :
    IF at = {} THEN 0 ELSE CHOOSE i \in at : \A j \in at : j <= i)

\* lines 122-130: the stripped text of the row's cell in that column, or None
CatField(ws, header_row, row, header_name) ==
    With(CatCol(ws[header_row], header_name), LAMBDA col :
    IF col # 0 /\ Truthy(row[col]) THEN Str(Strip(PyStr(row[col]))) ELSE None)

\* lines 45-100: the checks of the upload, load_workbook, the header row of
\* the Categories sheet
ReceiveFile ==
    /\ pc = "start"
    /\ IF file = "no filename"
       THEN /\ response' = HttpError(400, "Filename is required")
            /\ pc' = "raised"
            /\ UNCHANGED cat_row
       ELSE IF file = "invalid file type"
       THEN /\ response' = HttpError(400, "Invalid file type")
            /\ pc' = "raised"
            /\ UNCHANGED cat_row
       ELSE IF file = "file too large"
       THEN /\ response' = HttpError(400, "File too large")
            /\ pc' = "raised"
            /\ UNCHANGED cat_row
       ELSE IF file = "unreadable"
       THEN /\ response' = HttpError(500, "Error importing Excel file")
            /\ pc' = "raised"
            /\ UNCHANGED cat_row
       ELSE /\ pc' = "bootstrap"
            /\ cat_row' = IF "Categories" \in workbook.sheetnames /\ FindCatHeader(workbook.cats, 1) # 0
                          THEN FindCatHeader(workbook.cats, 1) + 1
                          ELSE 0
            /\ UNCHANGED response
    /\ UNCHANGED <<file, workbook, storeVars, category_id_map, categories_imported,
                   parseVars, loopVars, fnVars, localVars>>

BootstrapPending ==
    pc = "bootstrap" /\ cat_row # 0 /\ cat_row <= Len(workbook.cats)

\* a bootstrap that creates the category of every row with a name
BootstrapRow_NoLookup ==
    /\ BootstrapPending
    /\ \E commit_ok \in BOOLEAN,
          row \in {workbook.cats[cat_row]},
          header_row \in {FindCatHeader(workbook.cats, 1)} :
       \E old_id \in {CatField(workbook.cats, header_row, row, S_ID_lower)},
          name \in {CatField(workbook.cats, header_row, row, S_Name_lower)} :
       \E existing \in {None} :
          IF (\A i \in 1..Len(row) : ~Truthy(row[i])) \/ ~Truthy(name)
           THEN UNCHANGED <<storeVars, category_id_map, categories_imported>>
           ELSE IF existing # None
           THEN /\ category_id_map' = IF Truthy(old_id)
                                      THEN Put(category_id_map, old_id.s, Uuid(existing.id))
                                      ELSE category_id_map
                /\ UNCHANGED <<storeVars, categories_imported>>
           ELSE IF commit_ok
           THEN /\ categories' = Append(categories, [id |-> next_id, name |-> name.s])
                /\ next_id' = next_id + 1
                /\ category_id_map' = IF Truthy(old_id)
                                      THEN Put(category_id_map, old_id.s, Uuid(next_id))
                                      ELSE category_id_map
                /\ categories_imported' = categories_imported + 1
                /\ UNCHANGED expenses
           ELSE UNCHANGED <<storeVars, category_id_map, categories_imported>>
    /\ cat_row' = cat_row + 1
    /\ UNCHANGED <<pc, file, workbook, parseVars, loopVars, response, fnVars, localVars>>

\* lines 110-173: one row of the Categories sheet; commit_ok is whether the
\* store accepts the new category
BootstrapRow ==
    /\ BootstrapPending
    /\ \E commit_ok \in BOOLEAN,
          row \in {workbook.cats[cat_row]},
          header_row \in {FindCatHeader(workbook.cats, 1)} :
       \E old_id \in {CatField(workbook.cats, header_row, row, S_ID_lower)},
          name \in {CatField(workbook.cats, header_row, row, S_Name_lower)} :
       \E existing \in {IF name = None THEN None
                        ELSE FirstWhere(categories, "name", name.s)} :
          IF (\A i \in 1..Len(row) : ~Truthy(row[i])) \/ ~Truthy(name)
           THEN UNCHANGED <<storeVars, category_id_map, categories_imported>>
           ELSE IF existing # None
           THEN /\ category_id_map' = IF Truthy(old_id)
                                      THEN Put(category_id_map, old_id.s, Uuid(existing.id))
                                      ELSE category_id_map
                /\ UNCHANGED <<storeVars, categories_imported>>
           ELSE IF commit_ok
           THEN /\ categories' = Append(categories, [id |-> next_id, name |-> name.s])
                /\ next_id' = next_id + 1
                /\ category_id_map' = IF Truthy(old_id)
                                      THEN Put(category_id_map, old_id.s, Uuid(next_id))
                                      ELSE category_id_map
                /\ categories_imported' = categories_imported + 1
                /\ UNCHANGED expenses
           ELSE UNCHANGED <<storeVars, category_id_map, categories_imported>>
    /\ cat_row' = cat_row + 1
    /\ UNCHANGED <<pc, file, workbook, parseVars, loopVars, response, fnVars, localVars>>

\* the outcomes of dateutil's fuzzy parser: it raises, or it finds a date
FuzzyOutcomes == {None, Date(DaysFromCivil(2026, 5, 5))}

\* the rows whose date cell is handed to _parse_date
FuzzyRows(ws) ==
    With(_detect_columns(ws), LAMBDA column_map :
    {r \in FirstDataRow..Len(ws) :
        /\ Has(column_map, "date")
        /\ column_map["date"] <= Len(ws[r])
        /\ CellValue("date", ws[r][column_map["date"]]).t \in {"str", "num"}})

\* "No data found in Excel file" is raised when there is nothing to report and
\* the mutant that forgets the parse errors
NoDataFound_IgnoringErrors(parsed_expenses, parsed_errors, imported) ==
    parsed_expenses = <<>>

\* line 184
NoDataFound(parsed_expenses, parsed_errors, imported) ==
    parsed_expenses = <<>> /\ parsed_errors = <<>> /\ imported = 0

\* lines 175-208: parse(), the "No data found" check, the categories loaded
\* for matching
ParseFile ==
    /\ pc = "bootstrap"
    /\ ~BootstrapPending
    /\ \E fuzzy \in [FuzzyRows(workbook.sheet) -> FuzzyOutcomes] :
       \E parsed \in {parse(workbook.sheet, fuzzy)} :
        IF NoDataFound(parsed.expenses, parsed.errors, categories_imported)
        THEN /\ response' = HttpError(400, "No data found in Excel file")
             /\ pc' = "raised"
             /\ UNCHANGED <<parseVars, idx>>
        ELSE /\ expenses_data' = parsed.expenses
             /\ parse_errors' = parsed.errors
             /\ all_categories' = categories
             /\ idx' = 1
             /\ pc' = "rows"
             /\ UNCHANGED response
    /\ UNCHANGED <<file, workbook, storeVars, bootVars, imported_count, failed_rows,
                   category_matches, uncategorized_count, skipped_count, fnVars, localVars>>

\* a skip test that lets a zero amount through
AmountNotPositive_NegativeOnly(expense_data) ==
    Get(expense_data, "amount") # None /\ expense_data["amount"].n < 0

\* lines 232-233: expense_data.get('amount', 0) <= 0
AmountNotPositive(expense_data) ==
    Get(expense_data, "amount") = None \/ expense_data["amount"].n <= 0

\* an except branch without db.rollback(): the pending expense stays in the
\* session and reaches the store with the next commit
RecordFailure_NoRollback(row_num, error, data) ==
    /\ failed_rows' = Append(failed_rows, [row |-> row_num, error |-> error, data |-> data])
    /\ expenses' = Append(expenses, NewExpense(next_id, data, data["category_id"]))
    /\ next_id' = next_id + 1
    /\ UNCHANGED <<categories, imported_count>>

\* an except branch that counts the failed row as imported as well
RecordFailure_AlsoImported(row_num, error, data) ==
    /\ failed_rows' = Append(failed_rows, [row |-> row_num, error |-> error, data |-> data])
    /\ imported_count' = imported_count + 1
    /\ UNCHANGED storeVars

\* lines 341-351: the except branch of the loop
RecordFailure(row_num, error, data) ==
    /\ failed_rows' = Append(failed_rows, [row |-> row_num, error |-> error, data |-> data])
    /\ UNCHANGED <<storeVars, imported_count>>

\* lines 230-351: one iteration of the loop over expenses_data; commit_ok is
\* whether the store accepts the row
ProcessRow ==
    /\ pc = "rows"
    /\ idx <= Len(expenses_data)
    /\ \E commit_ok \in BOOLEAN,
          expense_data \in {expenses_data[idx]} :
       \E matched_category \in {MatchCategory(expense_data, all_categories,
                                    category_id_map, categories, expenses)} :
       \E category_id \in {IF matched_category # None THEN Uuid(matched_category.id)
                           ELSE None} :
       \E with_category \in {Put(expense_data, "category_id", category_id)} :
          IF AmountNotPositive(expense_data)
           THEN /\ skipped_count' = skipped_count + 1
                /\ UNCHANGED <<storeVars, expenses_data, imported_count, failed_rows,
                               category_matches, uncategorized_count>>
           ELSE /\ expenses_data' = [expenses_data EXCEPT ![idx] = with_category]
                /\ IF matched_category # None
                   THEN /\ category_matches' =
                            Put(category_matches, matched_category.name,
                                IF Has(category_matches, matched_category.name)
                                THEN category_matches[matched_category.name] + 1
                                ELSE 1)
                        /\ UNCHANGED uncategorized_count
                   ELSE /\ uncategorized_count' = uncategorized_count + 1
                        /\ UNCHANGED category_matches
                /\ IF ExpenseCreateRaises(with_category)
                   THEN RecordFailure(idx + 1, "validation error", with_category)
                   ELSE IF ~commit_ok
                   THEN RecordFailure(idx + 1, "commit failed", with_category)
                   ELSE /\ expenses' = Append(expenses,
                                NewExpense(next_id, with_category, category_id))
                        /\ next_id' = next_id + 1
                        /\ imported_count' = imported_count + 1
                        /\ UNCHANGED <<categories, failed_rows>>
                /\ UNCHANGED skipped_count
    /\ idx' = idx + 1
    /\ UNCHANGED <<pc, file, workbook, bootVars, parse_errors, all_categories,
                   response, fnVars, localVars>>

\* line 375
FailedRowsMax == 10

\* line 374: "Row {row}: {error}" of each failed row
RowErrors(rows) == [i \in 1..Len(rows) |-> [row |-> rows[i].row, error |-> rows[i].error]]

\* lines 353-376
Finish ==
    /\ pc = "rows"
    /\ idx > Len(expenses_data)
    /\ response' =
        [success |-> TRUE,
         summary |-> [total_rows |-> Len(expenses_data),
                      imported |-> imported_count,
                      failed |-> Len(failed_rows) + Len(parse_errors),
                      uncategorized |-> uncategorized_count,
                      skipped |-> skipped_count,
                      categories_imported |-> categories_imported],
         category_matches |-> category_matches,
         errors |-> parse_errors \o RowErrors(failed_rows),
         failed_rows |-> SubSeq(failed_rows, 1, Min(FailedRowsMax, Len(failed_rows)))]
    /\ pc' = "done"
    /\ UNCHANGED <<file, workbook, storeVars, bootVars, parseVars, loopVars, fnVars, localVars>>

Next == ReceiveFile \/ BootstrapRow \/ ParseFile \/ ProcessRow \/ Finish

Spec == Init /\ [][Next]_vars

(***************************************************************************)
(* Properties of import_excel                                              *)
(***************************************************************************)
IsPrefix(s, u) == Len(s) <= Len(u) /\ SubSeq(u, 1, Len(s)) = s

Returned == pc \in {"done", "raised"}

\* the minimum set of columns is found in the transaction sheet
ColumnsDetected == HasRequired(_detect_columns(workbook.sheet))

C1_Step ==
    /\ IsPrefix(expenses, expenses')
    /\ pc = "rows" => pc' \in {"rows", "done"}
    /\ Len(failed_rows') > Len(failed_rows) =>
        /\ expenses' = expenses
        /\ categories' = categories
        /\ imported_count' = imported_count
        /\ Len(failed_rows') = Len(failed_rows) + 1
        /\ IsPrefix(failed_rows, failed_rows')
        /\ failed_rows'[Len(failed_rows')].row = idx + 1
        /\ idx' = idx + 1
        /\ pc' = "rows"
    /\ pc' = "done" =>
        /\ idx > Len(expenses_data)
        /\ imported_count + Len(failed_rows) + skipped_count = Len(expenses_data)
        /\ response'.success = TRUE

\* C1: in import_excel, a row whose persistence fails is caught: the store is
\* left as it was before the row (the rows committed earlier stay, the failed
\* row adds nothing), the row is appended to failed_rows with its position,
\* the loop goes on to the next row, every row is processed before the call
\* ends, and the call ends with a success response instead of raising.
C1_FailureIsolation == [][C1_Step]_vars

\* C1: a run in which the second of three rows failed at commit and the rows
\* before and after it are in the store
C1_Witness ==
    /\ pc = "done"
    /\ response.success = TRUE
    /\ Len(failed_rows) = 1
    /\ failed_rows[1].error = "commit failed"
    /\ failed_rows[1].row = 3
    /\ imported_count = 2
    /\ Len(expenses) = Len(InitialExpenses) + 2

\* C2: when the minimum required columns cannot be detected in the
\* transaction sheet, the run is aborted with a single top-level error: the
\* response is not success=true, and the store holds no category and no
\* expense that the run wrote.
C2_StructuralAbort ==
    (Returned /\ file = "ok" /\ ~ColumnsDetected)
        => /\ response.success = FALSE
           /\ categories = InitialCategories
           /\ expenses = InitialExpenses

C4_DetectorFails ==
    (pc \in {"rows", "done"} /\ ~ColumnsDetected)
        => /\ _detect_columns(workbook.sheet) = EmptyDict
           /\ expenses_data = <<>>
           /\ parse_errors = <<StructuralError>>

\* the row's cells pass validation with a positive amount
ValidPositive(ws, r) ==
    With(_validate_row(_extract_row(_detect_columns(ws), ws[r]), None), LAMBDA v :
        v.error = None /\ v.row_data["amount"].n > 0)

\* the row's only violation is an amount that does not parse
BadAmountOnly(ws, r) ==
    With(_extract_row(_detect_columns(ws), ws[r]), LAMBDA row_data :
        /\ AmountErrors(row_data) = <<Msg("Invalid amount", Get(row_data, "amount"))>>
        /\ DescriptionErrors(row_data) = <<>>)

\* the sheet without row r
WithoutRow(ws, r) == SubSeq(ws, 1, r - 1) \o SubSeq(ws, r + 1, Len(ws))

\* the store after every row of data has been persisted, in order
RECURSIVE PersistAll(_, _, _)
PersistAll(data, store, id) ==
    IF data = <<>> THEN store
    ELSE With(MatchCategory(Head(data), categories, category_id_map, categories, store),
              LAMBDA matched_category :
         With(IF matched_category # None THEN Uuid(matched_category.id) ELSE None,
              LAMBDA category_id :
         PersistAll(Tail(data),
                    Append(store, NewExpense(id, Put(Head(data), "category_id", category_id),
                                             category_id)),
                    id + 1)))

\* a finished run over a sheet whose first row is the header and whose other
\* rows are data rows, of which row b alone has an unparseable amount, the
\* others being valid positive-amount rows that all persisted
C5_Case(b) ==
    /\ pc = "done"
    /\ HasRequired(ScanRow(EmptyDict, workbook.sheet[1], 1))
    /\ b \in FirstDataRow..Len(workbook.sheet)
    /\ BadAmountOnly(workbook.sheet, b)
    /\ \A r \in (FirstDataRow..Len(workbook.sheet)) \ {b} : ValidPositive(workbook.sheet, r)
    /\ failed_rows = <<>>

\* C5: in a batch of N data rows where exactly one row has an unparseable
\* amount and the others are valid positive-amount rows that persist, the
\* result has imported = N-1 and failed = 1, the bad row is the one entry of
\* errors, under its row position, and the store holds what the same file
\* without the bad row would have left in it.
C5_OneBadAmount ==
    \A b \in 1..Len(workbook.sheet) :
        C5_Case(b) =>
            /\ response.summary.imported = Len(workbook.sheet) - FirstDataRow
            /\ response.summary.failed = 1
            /\ response.summary.skipped = 0
            /\ Len(response.errors) = 1
            /\ response.errors[1].row = b
            /\ response.errors[1].error.msgs[1].msg = "Invalid amount"
            /\ response.failed_rows = <<>>
            /\ expenses = PersistAll(parse(WithoutRow(workbook.sheet, b), EmptyDict).expenses,
                                     InitialExpenses, FirstFreshId)

\* C5: three data rows, the middle one with the bad amount
C5_Witness ==
    /\ Len(workbook.sheet) = FirstDataRow + 2
    /\ C5_Case(FirstDataRow + 1)
    /\ response.summary.imported = 2

C6_Step ==
    /\ (/\ pc = "rows"
        /\ idx <= Len(expenses_data)
        /\ expenses_data[idx]["amount"].n <= 0
        /\ idx' = idx + 1)
        => /\ skipped_count' = skipped_count + 1
           /\ UNCHANGED <<expenses, categories, next_id, imported_count, failed_rows,
                          category_matches, uncategorized_count, expenses_data>>
    /\ pc' = "done" =>
        response'.summary.skipped =
            Cardinality({i \in 1..Len(expenses_data) : expenses_data[i]["amount"].n <= 0})

\* C6: a validated row whose amount is zero or negative adds one to skipped
\* and changes nothing else: the store, imported, the failed rows, the
\* category counters and the row's data (no category is assigned) stay as
\* they were; the response's skipped is the number of such rows.
C6_SkippedOnly == [][C6_Step]_vars

\* C6: a finished run that skipped a zero amount and a negative amount
C6_Witness ==
    /\ pc = "done"
    /\ response.summary.skipped = 2
    /\ \E i, j \in 1..Len(expenses_data) :
        expenses_data[i]["amount"].n = 0 /\ expenses_data[j]["amount"].n < 0

(***************************************************************************)
(* scripts/import_excel_local.py: the offline importer, one action per     *)
(* step of main.  Its session has autoflush off: what db.add() leaves      *)
(* pending reaches the store, and the queries, at the batch's commit.      *)
(***************************************************************************)
MaxLocalRows == 3   \* data rows of the offline importer's sheet
MaxBatchSize == 2   \* --batch-size

\* lines 165-215
match_category(expense_data, cats, id_map, category_table, expense_table) ==
    With(ExpenseCategoryId(expense_data, expense_table), LAMBDA expense_category_id :
    With(MatchHint(expense_data, cats), LAMBDA matched_category :
    IF expense_category_id # None /\ matched_category = None
    THEN MatchLegacy(expense_category_id, id_map, category_table)
    ELSE matched_category))

\* lines 233-242: the row's id names a stored expense
ExistingExpense(expense_data, expense_table) ==
    /\ Has(expense_data, "id")
    /\ Truthy(expense_data["id"])
    /\ ParseUUID(PyStr(expense_data["id"])) # -1
    /\ FirstWhere(expense_table, "id", ParseUUID(PyStr(expense_data["id"]))) # None

\* lines 221-223: the counters of process_batch, the expenses db.add() left
\* pending, and the rows of the batch as the loop leaves their dicts
EmptyBatch ==
    [imported_count |-> 0, uncategorized_count |-> 0, failed_rows |-> <<>>,
     pending |-> <<>>, batch |-> <<>>]

\* lines 225-283: one iteration of the loop of process_batch
BatchRow(acc, expense_data, cats, id_map, category_table, expense_table, skip) ==
    IF AmountNotPositive(expense_data)
    THEN [acc EXCEPT !.batch = Append(@, expense_data)]
    ELSE IF skip /\ ExistingExpense(expense_data, expense_table)
    THEN [acc EXCEPT !.batch = Append(@, expense_data)]
    ELSE With(match_category(expense_data, cats, id_map, category_table, expense_table),
              LAMBDA matched_category :
         With(Put(expense_data, "category_id",
                  IF matched_category # None THEN Uuid(matched_category.id) ELSE None),
              LAMBDA with_category :
         With(acc.uncategorized_count + (IF matched_category = None THEN 1 ELSE 0),
              LAMBDA uncategorized :
         IF ExpenseCreateRaises(with_category)
         THEN [acc EXCEPT !.uncategorized_count = uncategorized,
                          !.failed_rows = Append(@, [error |-> "validation error",
                                                     data |-> with_category]),
                          !.batch = Append(@, with_category)]
         ELSE [acc EXCEPT !.uncategorized_count = uncategorized,
                          !.pending = Append(@, with_category),
                          !.imported_count = @ + 1,
                          !.batch = Append(@, with_category)])))

RECURSIVE BatchRows(_, _, _, _, _, _, _)
BatchRows(acc, expenses_batch, cats, id_map, category_table, expense_table, skip) ==
    IF expenses_batch = <<>> THEN acc
    ELSE BatchRows(BatchRow(acc, Head(expenses_batch), cats, id_map, category_table,
                            expense_table, skip),
                   Tail(expenses_batch), cats, id_map, category_table, expense_table, skip)

\* the rows of the batch marked failed
BatchFailedRows(batch) ==
    [i \in 1..Len(batch) |-> [error |-> "Batch commit failed", data |-> batch[i]]]

\* an except branch that forgets to reset the counters
CommitFailure_KeepCounts(acc) ==
    [acc EXCEPT !.failed_rows = @ \o BatchFailedRows(acc.batch), !.pending = <<>>]

\* lines 289-295: the except branch of the batch commit
CommitFailure(acc) ==
    [acc EXCEPT !.failed_rows = @ \o BatchFailedRows(acc.batch),
                !.pending = <<>>,
                !.imported_count = 0,
                !.uncategorized_count = 0]

\* lines 218-297; commit_ok is whether the store accepts the batch
process_batch(expenses_batch, cats, id_map, category_table, expense_table, skip, commit_ok) ==
    With(BatchRows(EmptyBatch, expenses_batch, cats, id_map, category_table,
                   expense_table, skip), LAMBDA acc :
    IF commit_ok THEN acc ELSE CommitFailure(acc))

\* lines 548-553: the histogram of the categories the rows of the batch carry
RECURSIVE TrackMatches(_, _, _)
TrackMatches(matches, batch, cats) ==
    IF batch = <<>> THEN matches
    ELSE With(IF Truthy(Get(Head(batch), "category_id"))
              THEN FirstWhere(cats, "id", Head(batch)["category_id"].v)
              ELSE None, LAMBDA cat :
         TrackMatches(IF cat = None THEN matches
                      ELSE Put(matches, cat.name,
                               IF Has(matches, cat.name) THEN matches[cat.name] + 1 ELSE 1),
                      Tail(batch), cats))

\* line 510
TotalBatches == (Len(expenses_data) + batch_size - 1) \div batch_size

\* lines 522-525: the slice of expenses_data of the batch
BatchSlice ==
    SubSeq(expenses_data, batch_num * batch_size + 1,
           Min(batch_num * batch_size + batch_size, Len(expenses_data)))

\* line 532: the rows of the slice that are handed to process_batch
Positive(rows) == SelectSeq(rows, LAMBDA exp : ~AmountNotPositive(exp))

\* the expenses a commit inserts
Inserted(pending, id) ==
    [i \in 1..Len(pending) |-> NewExpense(id + i - 1, pending[i], pending[i]["category_id"])]

\* sys.exit(code) before the summary, and after it
Exit(code) == [exit_code |-> code, summary |-> None]

\* lines 452-474: the database is reached, the file is read, the workbook is
\* loaded; import_categories finds its header row (lines 67-93)
LocalOpen ==
    /\ pc = "local_start"
    /\ IF file # "ok"
       THEN /\ response' = Exit(1)
            /\ pc' = "exited"
            /\ UNCHANGED cat_row
       ELSE /\ pc' = "bootstrap"
            /\ cat_row' = IF "Categories" \in workbook.sheetnames
                             /\ FindCatHeader(workbook.cats, 1) # 0
                          THEN FindCatHeader(workbook.cats, 1) + 1
                          ELSE 0
            /\ UNCHANGED response
    /\ UNCHANGED <<file, workbook, storeVars, category_id_map, categories_imported,
                   parseVars, loopVars, fnVars, localVars>>

\* lines 486-505: parse(), the exit when nothing is valid, the categories
\* loaded for matching
LocalParse ==
    /\ pc = "bootstrap"
    /\ ~BootstrapPending
    /\ \E fuzzy \in [FuzzyRows(workbook.sheet) -> FuzzyOutcomes] :
       \E parsed \in {parse(workbook.sheet, fuzzy)} :
        IF parsed.expenses = <<>>
        THEN /\ response' = Exit(1)
             /\ pc' = "exited"
             /\ UNCHANGED parseVars
        ELSE /\ expenses_data' = parsed.expenses
             /\ parse_errors' = parsed.errors
             /\ all_categories' = categories
             /\ pc' = "batches"
             /\ UNCHANGED response
    /\ UNCHANGED <<file, workbook, storeVars, bootVars, loopVars, fnVars, localVars>>

\* lines 522-556: one iteration of the loop over the batches, process_batch
\* included
LocalBatch ==
    /\ pc = "batches"
    /\ batch_num < TotalBatches
    /\ skipped_count' = skipped_count + Len(BatchSlice) - Len(Positive(BatchSlice))
    /\ IF Positive(BatchSlice) = <<>>
       THEN UNCHANGED <<storeVars, imported_count, failed_count, uncategorized_count,
                        failed_rows, category_matches, commit_failed>>
       ELSE \E commit_ok \in BOOLEAN :
            \E result \in {process_batch(Positive(BatchSlice), all_categories,
                                category_id_map, categories, expenses, skip_existing,
                                commit_ok)} :
                /\ imported_count' = imported_count + result.imported_count
                /\ failed_count' = failed_count + Len(result.failed_rows)
                /\ uncategorized_count' = uncategorized_count + result.uncategorized_count
                /\ failed_rows' = failed_rows \o result.failed_rows
                /\ category_matches' =
                        TrackMatches(category_matches, result.batch, all_categories)
                /\ expenses' = expenses \o Inserted(result.pending, next_id)
                /\ next_id' = next_id + Len(result.pending)
                /\ commit_failed' = ~commit_ok
                /\ UNCHANGED categories
    /\ batch_num' = batch_num + 1
    /\ UNCHANGED <<pc, file, workbook, bootVars, parseVars, idx, response, fnVars,
                   skip_existing, batch_size>>

\* lines 560-597: the summary and the exit code
LocalFinish ==
    /\ pc = "batches"
    /\ batch_num >= TotalBatches
    /\ response' =
        [exit_code |-> IF imported_count > 0 THEN 0 ELSE 1,
         summary |-> [total_rows |-> Len(expenses_data),
                      imported |-> imported_count,
                      failed |-> failed_count,
                      skipped |-> skipped_count,
                      uncategorized |-> uncategorized_count,
                      categories_imported |-> categories_imported]]
    /\ pc' = "exited"
    /\ UNCHANGED <<file, workbook, storeVars, bootVars, parseVars, loopVars, fnVars,
                   localVars>>

LocalRows == {ROk, RLegacy, RNeg, RBlank}
LocalWorkbooks ==
    {[sheetnames |-> {"Expenses"}, cats |-> NoSheet, sheet |-> <<HFull>> \o rows] :
        rows \in SeqsUpTo(LocalRows, MaxLocalRows)}
    \cup {[sheetnames |-> {"Categories", "Expenses"}, cats |-> <<CatHeader, CatNew>>,
           sheet |-> <<HFull>> \o rows] : rows \in SeqsUpTo(LocalRows, 1)}
LocalProblems == {"unreadable", "no database"}

InitLocal ==
    /\ pc = "local_start"
    /\ \/ file = "ok" /\ workbook \in LocalWorkbooks
       \/ file \in LocalProblems
          /\ workbook = [sheetnames |-> {"Expenses"}, cats |-> NoSheet,
                         sheet |-> <<HFull, ROk>>]
    /\ InitStore
    /\ category_id_map = EmptyDict
    /\ categories_imported = 0
    /\ cat_row = 0
    /\ expenses_data = <<>>
    /\ parse_errors = <<>>
    /\ all_categories = <<>>
    /\ idx = 0
    /\ imported_count = 0
    /\ failed_rows = <<>>
    /\ category_matches = EmptyDict
    /\ uncategorized_count = 0
    /\ skipped_count = 0
    /\ response = NotCalled
    /\ skip_existing \in BOOLEAN
    /\ batch_size \in 1..MaxBatchSize
    /\ batch_num = 0
    /\ failed_count = 0
    /\ commit_failed = FALSE
    /\ FnIdle

NextLocal == LocalOpen \/ BootstrapRow \/ LocalParse \/ LocalBatch \/ LocalFinish

SpecLocal == InitLocal /\ [][NextLocal]_vars

(***************************************************************************)
(* Properties of the offline importer                                      *)
(***************************************************************************)
\* every validated row carries the identifier of an expense of the store
AllRowsKnown ==
    /\ Len(expenses_data) >= 1
    /\ Len(expenses_data) = Len(workbook.sheet) - 1
    /\ \A i \in 1..Len(expenses_data) : ExistingExpense(expenses_data[i], InitialExpenses)

NoCommitFailed ==
    \A i \in 1..Len(failed_rows) : failed_rows[i].error # "Batch commit failed"

\* a finished dedup run over a file whose rows are all known to the store
C7_Case ==
    /\ pc = "exited"
    /\ response.summary # None
    /\ skip_existing
    /\ AllRowsKnown
    /\ NoCommitFailed

\* C7: with skip-existing on, re-importing a file whose N rows all carry
\* identifiers present in the store ends with imported = 0, skipped = N and
\* failed = 0, and adds no expense to the store.
C7_DedupReimport ==
    C7_Case =>
        /\ response.summary.imported = 0
        /\ response.summary.skipped = Len(workbook.sheet) - 1
        /\ response.summary.failed = 0
        /\ expenses = InitialExpenses

\* what the code does in the case of C7: nothing is imported, nothing fails,
\* the store is left alone, and the rows are counted in no counter
C7_DedupAsCoded ==
    C7_Case =>
        /\ response.summary.imported = 0
        /\ response.summary.skipped = 0
        /\ response.summary.failed = 0
        /\ response.exit_code = 1
        /\ expenses = InitialExpenses

\* the row's dict without the category the loop assigned
WithoutCategoryId(data) == [k \in (DOMAIN data) \ {"category_id"} |-> data[k]]

C8_Step ==
    /\ IsPrefix(expenses, expenses')
    /\ pc = "batches" => pc' \in {"batches", "exited"}
    /\ (pc = "batches" /\ pc' = "exited") => batch_num >= TotalBatches
    /\ (pc = "batches" /\ batch_num' = batch_num + 1 /\ commit_failed') =>
        /\ expenses' = expenses
        /\ imported_count' = imported_count
        /\ pc' = "batches"
        /\ failed_count' >= failed_count + Len(Positive(BatchSlice))
        /\ IsPrefix(failed_rows, failed_rows')
        /\ \A i \in 1..Len(Positive(BatchSlice)) :
            \E j \in (Len(failed_rows) + 1)..Len(failed_rows') :
                /\ failed_rows'[j].error = "Batch commit failed"
                /\ WithoutCategoryId(failed_rows'[j].data) = Positive(BatchSlice)[i]

\* C8: in the offline importer, when the commit of a chunk fails, every row
\* handed to that chunk's process_batch is marked failed, the chunk adds
\* nothing to imported and nothing to the store, and the loop goes on with
\* the next chunk: the expenses of earlier chunks stay in the store and the
\* run ends only after the last chunk.
C8_ChunkFailure == [][C8_Step]_vars

\* C8: three chunks of one row, of which the second failed at commit and the
\* first and the third are in the store
C8_Witness ==
    /\ pc = "exited"
    /\ batch_size = 1
    /\ Len(expenses_data) = 3
    /\ Len(failed_rows) = 1
    /\ failed_rows[1].error = "Batch commit failed"
    /\ WithoutCategoryId(failed_rows[1].data) = expenses_data[2]
    /\ response.summary.imported = 2
    /\ response.summary.failed = 1
    /\ Len(expenses) = Len(InitialExpenses) + 2

(***************************************************************************)
(* Row harness: _extract_row then _validate_row on one row of a sheet      *)
(* whose columns are date, amount, description                             *)
(***************************************************************************)
MaxDateLen == 3     \* length of the enumerated date strings

RowColumnMap == _detect_columns(<<<<Str(S_Date), Str(S_Amount), Str(S_Description)>>>>)

DateAlphabet == {"1", "/", "x", " "}
S_2026_03_01 == <<"2", "0", "2", "6", "-", "0", "3", "-", "0", "1">>
S_31_12_2026 == <<"3", "1", "/", "1", "2", "/", "2", "0", "2", "6">>
S_13_13_2026 == <<"1", "3", "/", "1", "3", "/", "2", "0", "2", "6">>
DateCells ==
    {None, Date(DaysFromCivil(2026, 3, 1)), DateTime(DaysFromCivil(2026, 3, 3), 75347),
     Num(46082, 0), Num(15, 1), Num(0, 0), Num(-3, 0), Num(MaxSerial + 1, 0),
     Str(S_soon), Str(S_timestamp), Str(S_2026_03_01), Str(S_31_12_2026),
     Str(S_13_13_2026)}
    \cup {Str(s) : s \in SeqsUpTo(DateAlphabet, MaxDateLen)}
AmountCells == {None, Num(50, 0), Num(-5, 0), Str(S_abc), Str(S_Rp_50_000)}
DescriptionCells ==
    {None, Str(S_Lunch), Str(<<" ">>), Str(<<>>), Num(0, 0),
     Str(<<" ">> \o S_Max \o <<" ">>), Str(S_Long)}

\* rows that differ in the amount cell only
AmountRows ==
    {[row |-> <<None, a, Str(S_Lunch)>>, fuzzy |-> None] : a \in AmountInputs}

InitRow ==
    /\ call = "_validate_row"
    /\ arg \in {[row |-> <<d, a, s>>, fuzzy |-> f] :
                    d \in DateCells, a \in AmountCells, s \in DescriptionCells,
                    f \in FuzzyOutcomes}
                \cup AmountRows
    /\ ret = NotCalled
    /\ RunIdle

\* parse(), lines 85-105, for one row
CallValidateRow ==
    /\ call = "_validate_row"
    /\ ret = NotCalled
    /\ ret' = _validate_row(_extract_row(RowColumnMap, arg.row), arg.fuzzy)
    /\ UNCHANGED <<call, arg, runVars>>

NextRow == CallValidateRow

SpecRow == InitRow /\ [][NextRow]_vars

RuleMessages ==
    {"Amount is required", "Invalid amount", "Description is required",
     "Description too long (max 500 characters)"}

\* the date cell holds nothing that parses: it is absent, empty or zero, or
\* neither the formats, the patterns nor dateutil find a date in it
NothingParses ==
    \/ ~Truthy(arg.row[1])
    \/ /\ arg.row[1].t \in {"str", "num"}
       /\ ~Truthy(_parse_date(CellValue("date", arg.row[1]), arg.fuzzy))

\* C9: whatever the date cell holds (nothing, an empty string, a native date
\* or datetime, a number, any string), _validate_row reports only amount and
\* description messages, rejects the row exactly when the amount or the
\* description rule is violated, and leaves the row with a date: today's
\* when nothing parses.
C9_DateNeverRejects ==
    ret # NotCalled =>
        /\ ret.row_data["date"].t = "date"
        /\ NothingParses => ret.row_data["date"] = Today
        /\ (ret.error = None) <=>
                (/\ AmountErrors(_extract_row(RowColumnMap, arg.row)) = <<>>
                 /\ DescriptionErrors(_extract_row(RowColumnMap, arg.row)) = <<>>)
        /\ ret.error # None =>
                \A i \in 1..Len(ret.error.msgs) : ret.error.msgs[i].msg \in RuleMessages

\* C9: a row with a good amount and description whose date is a string that
\* nothing parses is accepted with today's date
C9_Witness ==
    /\ ret # NotCalled
    /\ arg.row[1] = Str(S_soon)
    /\ arg.fuzzy = None
    /\ ret.error = None
    /\ ret.row_data["date"] = Today

(***************************************************************************)
(* Claims about what reaches the store and what validation reports         *)
(***************************************************************************)
\* C11: every expense in the store, at every point of an import_excel run, has
\* an amount greater than 0, a description of 1 to 500 characters and a
\* calendar date (a date, not a datetime, a string or nothing).
C11_PersistedValid ==
    \A i \in 1..Len(expenses) :
        /\ expenses[i].amount.t = "num"
        /\ expenses[i].amount.n > 0
        /\ expenses[i].description.t = "str"
        /\ Len(expenses[i].description.s) \in 1..DescriptionMax
        /\ expenses[i].date.t = "date"

\* C11: a finished run that stored a row with a description of exactly 500
\* characters and turned away, at ExpenseCreate, a row whose description is blank
C11_Witness ==
    /\ Returned
    /\ \E i \in 1..Len(expenses) : expenses[i].description = Str(S_Max)
    /\ \E i \in 1..Len(failed_rows) :
          /\ failed_rows[i].error = "validation error"
          /\ failed_rows[i].data["description"] = Str(<<>>)

\* every cell of row r under a mapped column is empty
EmptyMappedRow(ws, r) ==
    With(_detect_columns(ws), LAMBDA column_map :
        \A f \in DOMAIN column_map :
            column_map[f] > Len(ws[r]) \/ ws[r][column_map[f]] = None)

\* C12: a worksheet row in which every mapped column's cell is empty yields
\* no row from _extract_row and is skipped silently: parse reports no error
\* for it, so it adds nothing to the errors or to the failed count.
C12_EmptyRowSkipped ==
    (pc \in {"rows", "done"} /\ ColumnsDetected)
        => \A r \in FirstDataRow..Len(workbook.sheet) :
              EmptyMappedRow(workbook.sheet, r)
                => /\ _extract_row(_detect_columns(workbook.sheet), workbook.sheet[r]) = None
                   /\ \A i \in 1..Len(parse_errors) : parse_errors[i].row # r

\* the description cell of the validated row as text, trimmed
TrimmedDescription ==
    IF arg.row[3] = None THEN <<>> ELSE Strip(PyStr(arg.row[3]))

\* _validate_row reported a violation of the description rule
DescriptionReported ==
    /\ ret.error # None
    /\ \E i \in 1..Len(ret.error.msgs) :
          ret.error.msgs[i].msg \in {"Description is required",
                                     "Description too long (max 500 characters)"}

\* C13: _validate_row reports a description violation exactly when the
\* description, after trimming whitespace, is empty or longer than 500
\* characters.
C13_DescriptionRule ==
    ret # NotCalled =>
        (DescriptionReported <=>
            (TrimmedDescription = <<>> \/ Len(TrimmedDescription) > DescriptionMax))

\* what the code does in the case of C13: the description is reported when
\* the cell is falsy before trimming (absent, '', 0) or when the trimmed
\* text is longer than 500 characters; a cell of blanks only is accepted
C13_DescriptionRuleAsCoded ==
    ret # NotCalled =>
        (DescriptionReported <=>
            (~Truthy(arg.row[3]) \/ Len(TrimmedDescription) > DescriptionMax))

\* the worksheet rows parse() accepted, in order: the rows from FirstDataRow
\* on for which it reported no error (no row is left out as empty)
AcceptedRows ==
    SelectSeq([j \in 1..(Len(workbook.sheet) - 1) |-> j + 1],
              LAMBDA r : \A i \in 1..Len(parse_errors) : parse_errors[i].row # r)

\* C14: at the end of a run every entry of failed_rows carries the worksheet
\* row number of the record that failed (there is a validated record with the
\* entry's data that came from that worksheet row), the errors repeat those
\* numbers, and the response holds at most the first 10 entries.
C14_RowIndex ==
    pc = "done" =>
        /\ \A i \in 1..Len(failed_rows) :
              \E k \in 1..Len(expenses_data) :
                 /\ expenses_data[k] = failed_rows[i].data
                 /\ AcceptedRows[k] = failed_rows[i].row
        /\ response.errors = parse_errors \o RowErrors(failed_rows)
        /\ Len(response.failed_rows) <= FailedRowsMax
        /\ IsPrefix(response.failed_rows, failed_rows)

\* what the code does in the case of C14: the reported number is the position
\* of the record among the validated rows plus one
C14_RowIndexAsCoded ==
    pc = "done" =>
        \A i \in 1..Len(failed_rows) :
            /\ failed_rows[i].row - 1 \in 1..Len(expenses_data)
            /\ expenses_data[failed_rows[i].row - 1] = failed_rows[i].data

\* the amount cell of the validated row is text
TextAmount == ret # NotCalled /\ arg.row[2] # None /\ arg.row[2].t = "str"

\* the separator rule in the words of the claim, on the cleaned text
SeparatorRule(cleaned) ==
    CASE Count(cleaned, ".") > 1 -> RemoveChars(cleaned, {"."})
      [] Count(cleaned, ".") = 1 /\ Len(cleaned) - IndexOf(cleaned, ".") > 2
            -> RemoveChars(cleaned, {"."})
      [] OTHER -> cleaned

\* _validate_row reported a violation of the amount rule
AmountReported ==
    /\ ret.error # None
    /\ \E i \in 1..Len(ret.error.msgs) :
          ret.error.msgs[i].msg \in {"Amount is required", "Invalid amount"}

\* the row is rejected for its amount exactly when the text does not parse,
\* and otherwise carries the number the text parses to
AmountDecidedBy(text) ==
    /\ AmountReported <=> PyFloat(text) = None
    /\ PyFloat(text) # None => ret.row_data["amount"] = PyFloat(text)

S_RawText == <<"R", "a", "w", "T", "e", "x", "t">>
S_Remarks == <<"R", "e", "m", "a", "r", "k", "s">>
ExtractHeader ==
    <<Str(S_Date), Str(S_Amount), Str(S_Name), Str(S_RawText), Str(S_Description),
      Str(S_Remarks)>>
ExtractColumnMap == _detect_columns(<<ExtractHeader>>)

NameCells ==
    {None, Str(S_Taxi), Str(<<" ">> \o S_Taxi \o <<" ">>), Str(S_Bus), Str(<<" ">>),
     Num(5, 0)}
ExtractRows ==
    {<<Date(DaysFromCivil(2026, 3, 1)), Num(50, 0), n, r, d, x>> :
        n \in NameCells, r \in NameCells, d \in {None, Str(S_Lunch)},
        x \in {None, Str(S_abc)}}

InitExtract ==
    /\ call = "_extract_row"
    /\ arg \in ExtractRows
    /\ ret = NotCalled
    /\ RunIdle

\* parse(), line 86, for one row
CallExtractRow ==
    /\ call = "_extract_row"
    /\ ret = NotCalled
    /\ ret' = _extract_row(ExtractColumnMap, arg)
    /\ UNCHANGED <<call, arg, runVars>>

NextExtract == CallExtractRow

SpecExtract == InitExtract /\ [][NextExtract]_vars

\* the cell holds text other than blanks; its text, trimmed
Populated(cell) == cell # None /\ Strip(PyStr(cell)) # <<>>
Text(cell) == Strip(PyStr(cell))

\* the description rule of the claim for the name cell n and the rawtext cell r
SynthesisRule(n, r) ==
    /\ (Populated(n) /\ Populated(r)) =>
            /\ ret["description"] = Str(Text(n))
            /\ Text(r) # Text(n) => Get(ret, "notes") = Str(Text(r))
            /\ Text(r) = Text(n) => Get(ret, "notes") = arg[6]
    /\ (Populated(n) /\ ~Populated(r)) => ret["description"] = Str(Text(n))
    /\ (~Populated(n) /\ Populated(r)) => ret["description"] = Str(Text(r))

\* C16: when both name and rawtext are populated the description is the name
\* and rawtext goes to notes if it differs from the name (notes is untouched
\* when they are equal); when exactly one of them is populated, that value
\* is the description.
C16_Synthesis ==
    (call = "_extract_row" /\ ret # NotCalled) => SynthesisRule(arg[3], arg[4])

\* what the code does in the case of C16: the rule holds for the rows in
\* which neither the name cell nor the rawtext cell consists of blanks only
C16_SynthesisAsCoded ==
    (/\ call = "_extract_row" /\ ret # NotCalled
     /\ arg[3] # Str(<<" ">>) /\ arg[4] # Str(<<" ">>))
        => SynthesisRule(arg[3], arg[4])

(***************************************************************************)
(* _detect_columns on sheets whose rows are header rows, partial header    *)
(* rows and empty rows                                                     *)
(***************************************************************************)
MaxHeaderRows == 4  \* rows of the enumerated header sheets

HMin == <<None, Str(S_Date), Str(S_Amount), Str(S_Description), None>>
HRest == <<Str(S_ID), None, None, Str(S_Description), Str(S_Category)>>
HeaderRows == {HFull, HNoDesc, HNoDate, HMin, HRest, REmpty}
HeaderSheets == SeqsUpTo(HeaderRows, MaxHeaderRows) \ {<<>>}

InitDetect ==
    /\ call = "_detect_columns"
    /\ arg \in {[ws |-> ws] : ws \in HeaderSheets}
    /\ ret = NotCalled
    /\ RunIdle

\* parse(), line 72
CallDetectColumns ==
    /\ call = "_detect_columns"
    /\ ret = NotCalled
    /\ ret' = [column_map |-> _detect_columns(arg.ws)]
    /\ UNCHANGED <<call, arg, runVars>>

NextDetect == CallDetectColumns

SpecDetect == InitDetect /\ [][NextDetect]_vars

\* the cells of the header window in reading order, examined one by one
\* until the minimum set is mapped
RECURSIVE ScanUntilComplete(_, _, _, _)
ScanUntilComplete(column_map, ws, row_num, col_idx) ==
    IF HasRequired(column_map) \/ row_num >= Min(HeaderScanEnd, Len(ws) + 1)
    THEN column_map
    ELSE IF col_idx > Len(ws[row_num])
    THEN ScanUntilComplete(column_map, ws, row_num + 1, 1)
    ELSE ScanUntilComplete(ScanCell(column_map, ws[row_num][col_idx], col_idx),
                           ws, row_num, col_idx + 1)

\* every cell of the rows 1..h, examined in reading order
RECURSIVE FullScan(_, _)
FullScan(ws, h) ==
    IF h = 0 THEN EmptyDict
    ELSE With(FullScan(ws, h - 1), LAMBDA before :
         IF before = EmptyDict THEN ScanRow(EmptyDict, ws[h], 1)
         ELSE ScanRow(before, ws[h], 1))

\* the rows of the header window, and the first of them at whose end the
\* minimum set is mapped (the last row of the window when there is none)
HeaderWindow(ws) == 1..Min(HeaderScanEnd - 1, Len(ws))
LastScannedRow(ws) ==
    IF \E h \in HeaderWindow(ws) : HasRequired(FullScan(ws, h))
    THEN CHOOSE h \in HeaderWindow(ws) :
            /\ HasRequired(FullScan(ws, h))
            /\ \A g \in HeaderWindow(ws) : g < h => ~HasRequired(FullScan(ws, g))
    ELSE Min(HeaderScanEnd - 1, Len(ws))

\* C17 as stated: the scan stops at the cell that completes the minimum set
\* (date, amount and one of description/name/rawtext): no cell after it, in
\* reading order, is examined or added to the column map.
C17_StopsAtCell ==
    (call = "_detect_columns" /\ ret # NotCalled)
        => ret.column_map = ScanUntilComplete(EmptyDict, arg.ws, 1, 1)

\* C17: the scan stops at the end of the row in which the minimum set is
\* completed: every cell of that row and of the rows before it is examined,
\* the cells after the completing cell in the same row included, and no cell
\* of a later row is examined or added to the column map.
C17_StopsAfterRow ==
    (call = "_detect_columns" /\ ret # NotCalled)
        => ret.column_map = FullScan(arg.ws, LastScannedRow(arg.ws))

\* C17: the first row completes the minimum set; the second row, a full
\* header with an id and a category column, is left unread
C17_Witness ==
    /\ call = "_detect_columns" /\ ret # NotCalled
    /\ arg.ws = <<HMin, HFull>>
    /\ DOMAIN ret.column_map = {"date", "amount", "description"}

(***************************************************************************)
(* CategoryMatcher (expense-tracker/backend/app/services/category_matcher) *)
(* A keyword is a str, here the sequence of its characters.                *)
(***************************************************************************)
\* lines 36-83
predefined_keywords == <<
    [name |-> <<"F", "o", "o", "d", " ", "&", " ", "D", "i", "n", "i", "n", "g">>,
     keywords |-> <<
        <<"f", "o", "o", "d">>,
        <<"r", "e", "s", "t", "a", "u", "r", "a", "n", "t">>,
        <<"c", "a", "f", "e">>,
        <<"c", "o", "f", "f", "e", "e">>,
        <<"l", "u", "n", "c", "h">>,
        <<"d", "i", "n", "n", "e", "r">>,
        <<"b", "r", "e", "a", "k", "f", "a", "s", "t">>,
        <<"m", "a", "k", "a", "n">>,
        <<"r", "e", "s", "t", "o", "r", "a", "n">>,
        <<"k", "a", "f", "e">>,
        <<"k", "o", "p", "i">>,
        <<"m", "a", "k", "a", "n", " ", "s", "i", "a", "n", "g">>,
        <<"m", "a", "k", "a", "n", " ", "m", "a", "l", "a", "m">>,
        <<"s", "a", "r", "a", "p", "a", "n">>,
        <<"w", "a", "r", "u", "n", "g">>,
        <<"b", "a", "k", "s", "o">>,
        <<"n", "a", "s", "i">>,
        <<"m", "i", "e">>,
        <<"a", "y", "a", "m">>,
        <<"i", "k", "a", "n">>,
        <<"d", "a", "g", "i", "n", "g">>>>],
    [name |-> <<"T", "r", "a", "n", "s", "p", "o", "r", "t", "a", "t", "i", "o", "n">>,
     keywords |-> <<
        <<"t", "r", "a", "n", "s", "p", "o", "r", "t">>,
        <<"t", "a", "x", "i">>,
        <<"g", "r", "a", "b">>,
        <<"g", "o", "j", "e", "k">>,
        <<"u", "b", "e", "r">>,
        <<"b", "u", "s">>,
        <<"t", "r", "a", "i", "n">>,
        <<"f", "l", "i", "g", "h", "t">>,
        <<"t", "r", "a", "n", "s", "p", "o", "r", "t", "a", "s", "i">>,
        <<"t", "a", "k", "s", "i">>,
        <<"o", "j", "e", "k">>,
        <<"k", "e", "r", "e", "t", "a">>,
        <<"p", "e", "s", "a", "w", "a", "t">>,
        <<"b", "e", "n", "s", "i", "n">>,
        <<"g", "a", "s">>,
        <<"p", "a", "r", "k", "i", "n", "g">>,
        <<"p", "a", "r", "k", "i", "r">>,
        <<"t", "o", "l">>,
        <<"t", "o", "l", "l">>>>],
    [name |-> <<"S", "h", "o", "p", "p", "i", "n", "g">>,
     keywords |-> <<
        <<"s", "h", "o", "p">>,
        <<"s", "h", "o", "p", "p", "i", "n", "g">>,
        <<"m", "a", "l", "l">>,
        <<"s", "t", "o", "r", "e">>,
        <<"m", "a", "r", "k", "e", "t">>,
        <<"s", "u", "p", "e", "r", "m", "a", "r", "k", "e", "t">>,
        <<"g", "r", "o", "c", "e", "r", "y">>,
        <<"b", "e", "l", "a", "n", "j", "a">>,
        <<"t", "o", "k", "o">>,
        <<"m", "a", "l", "l">>,
        <<"p", "a", "s", "a", "r">>,
        <<"s", "u", "p", "e", "r", "m", "a", "r", "k", "e", "t">>,
        <<"s", "w", "a", "l", "a", "y", "a", "n">>>>],
    [name |-> <<"B", "i", "l", "l", "s", " ", "&", " ", "U", "t", "i", "l", "i", "t", "i", "e", "s">>,
     keywords |-> <<
        <<"b", "i", "l", "l">>,
        <<"u", "t", "i", "l", "i", "t", "y">>,
        <<"e", "l", "e", "c", "t", "r", "i", "c", "i", "t", "y">>,
        <<"w", "a", "t", "e", "r">>,
        <<"i", "n", "t", "e", "r", "n", "e", "t">>,
        <<"p", "h", "o", "n", "e">>,
        <<"e", "l", "e", "c", "t", "r", "i", "c">>,
        <<"t", "a", "g", "i", "h", "a", "n">>,
        <<"l", "i", "s", "t", "r", "i", "k">>,
        <<"a", "i", "r">>,
        <<"i", "n", "t", "e", "r", "n", "e", "t">>,
        <<"t", "e", "l", "e", "p", "o", "n">>,
        <<"p", "d", "a", "m">>,
        <<"p", "l", "n">>>>],
    [name |-> <<"E", "n", "t", "e", "r", "t", "a", "i", "n", "m", "e", "n", "t">>,
     keywords |-> <<
        <<"e", "n", "t", "e", "r", "t", "a", "i", "n", "m", "e", "n", "t">>,
        <<"m", "o", "v", "i", "e">>,
        <<"c", "i", "n", "e", "m", "a">>,
        <<"c", "o", "n", "c", "e", "r", "t">>,
        <<"g", "a", "m", "e">>,
        <<"n", "e", "t", "f", "l", "i", "x">>,
        <<"s", "p", "o", "t", "i", "f", "y">>,
        <<"h", "i", "b", "u", "r", "a", "n">>,
        <<"f", "i", "l", "m">>,
        <<"b", "i", "o", "s", "k", "o", "p">>,
        <<"k", "o", "n", "s", "e", "r">>,
        <<"g", "a", "m", "e">>,
        <<"t", "i", "k", "e", "t">>>>],
    [name |-> <<"H", "e", "a", "l", "t", "h", "c", "a", "r", "e">>,
     keywords |-> <<
        <<"h", "e", "a", "l", "t", "h">>,
        <<"h", "e", "a", "l", "t", "h", "c", "a", "r", "e">>,
        <<"d", "o", "c", "t", "o", "r">>,
        <<"h", "o", "s", "p", "i", "t", "a", "l">>,
        <<"p", "h", "a", "r", "m", "a", "c", "y">>,
        <<"m", "e", "d", "i", "c", "i", "n", "e">>,
        <<"c", "l", "i", "n", "i", "c">>,
        <<"k", "e", "s", "e", "h", "a", "t", "a", "n">>,
        <<"d", "o", "k", "t", "e", "r">>,
        <<"r", "u", "m", "a", "h", " ", "s", "a", "k", "i", "t">>,
        <<"a", "p", "o", "t", "e", "k">>,
        <<"o", "b", "a", "t">>,
        <<"k", "l", "i", "n", "i", "k">>,
        <<"m", "e", "d", "i", "c", "a", "l">>>>],
    [name |-> <<"E", "d", "u", "c", "a", "t", "i", "o", "n">>,
     keywords |-> <<
        <<"e", "d", "u", "c", "a", "t", "i", "o", "n">>,
        <<"s", "c", "h", "o", "o", "l">>,
        <<"u", "n", "i", "v", "e", "r", "s", "i", "t", "y">>,
        <<"c", "o", "u", "r", "s", "e">>,
        <<"b", "o", "o", "k">>,
        <<"t", "u", "i", "t", "i", "o", "n">>,
        <<"l", "e", "a", "r", "n", "i", "n", "g">>,
        <<"p", "e", "n", "d", "i", "d", "i", "k", "a", "n">>,
        <<"s", "e", "k", "o", "l", "a", "h">>,
        <<"u", "n", "i", "v", "e", "r", "s", "i", "t", "a", "s">>,
        <<"k", "u", "r", "s", "u", "s">>,
        <<"b", "u", "k", "u">>,
        <<"b", "e", "l", "a", "j", "a", "r">>>>],
    [name |-> <<"P", "e", "r", "s", "o", "n", "a", "l", " ", "C", "a", "r", "e">>,
     keywords |-> <<
        <<"p", "e", "r", "s", "o", "n", "a", "l", " ", "c", "a", "r", "e">>,
        <<"h", "a", "i", "r", "c", "u", "t">>,
        <<"s", "a", "l", "o", "n">>,
        <<"s", "p", "a">>,
        <<"b", "e", "a", "u", "t", "y">>,
        <<"s", "k", "i", "n", "c", "a", "r", "e">>,
        <<"c", "o", "s", "m", "e", "t", "i", "c">>,
        <<"p", "e", "r", "a", "w", "a", "t", "a", "n">>,
        <<"p", "o", "t", "o", "n", "g", " ", "r", "a", "m", "b", "u", "t">>,
        <<"s", "a", "l", "o", "n">>,
        <<"s", "p", "a">>,
        <<"k", "e", "c", "a", "n", "t", "i", "k", "a", "n">>,
        <<"s", "k", "i", "n", "c", "a", "r", "e">>>>],
    [name |-> <<"T", "r", "a", "v", "e", "l">>,
     keywords |-> <<
        <<"t", "r", "a", "v", "e", "l">>,
        <<"h", "o", "t", "e", "l">>,
        <<"f", "l", "i", "g", "h", "t">>,
        <<"t", "i", "c", "k", "e", "t">>,
        <<"v", "a", "c", "a", "t", "i", "o", "n">>,
        <<"t", "r", "i", "p">>,
        <<"h", "o", "l", "i", "d", "a", "y">>,
        <<"p", "e", "r", "j", "a", "l", "a", "n", "a", "n">>,
        <<"h", "o", "t", "e", "l">>,
        <<"p", "e", "s", "a", "w", "a", "t">>,
        <<"t", "i", "k", "e", "t">>,
        <<"l", "i", "b", "u", "r", "a", "n">>,
        <<"w", "i", "s", "a", "t", "a">>>>],
    [name |-> <<"G", "i", "f", "t", "s", " ", "&", " ", "D", "o", "n", "a", "t", "i", "o", "n", "s">>,
     keywords |-> <<
        <<"g", "i", "f", "t">>,
        <<"d", "o", "n", "a", "t", "i", "o", "n">>,
        <<"c", "h", "a", "r", "i", "t", "y">>,
        <<"p", "r", "e", "s", "e", "n", "t">>,
        <<"b", "i", "r", "t", "h", "d", "a", "y">>,
        <<"w", "e", "d", "d", "i", "n", "g">>,
        <<"h", "a", "d", "i", "a", "h">>,
        <<"d", "o", "n", "a", "s", "i">>,
        <<"a", "m", "a", "l">>,
        <<"k", "a", "d", "o">>,
        <<"u", "l", "a", "n", "g", " ", "t", "a", "h", "u", "n">>,
        <<"p", "e", "r", "n", "i", "k", "a", "h", "a", "n">>>>],
    [name |-> <<"S", "u", "b", "s", "c", "r", "i", "p", "t", "i", "o", "n", "s">>,
     keywords |-> <<
        <<"s", "u", "b", "s", "c", "r", "i", "p", "t", "i", "o", "n">>,
        <<"n", "e", "t", "f", "l", "i", "x">>,
        <<"s", "p", "o", "t", "i", "f", "y">>,
        <<"y", "o", "u", "t", "u", "b", "e">>,
        <<"p", "r", "e", "m", "i", "u", "m">>,
        <<"m", "e", "m", "b", "e", "r", "s", "h", "i", "p">>,
        <<"l", "a", "n", "g", "g", "a", "n", "a", "n">>,
        <<"b", "e", "r", "l", "a", "n", "g", "g", "a", "n", "a", "n">>,
        <<"p", "r", "e", "m", "i", "u", "m">>,
        <<"k", "e", "a", "n", "g", "g", "o", "t", "a", "a", "n">>>>]>>

\* predefined_keywords.get(category_name, [])
RECURSIVE PredefinedFor(_, _)
PredefinedFor(category_name, i) ==
    IF i > Len(predefined_keywords) THEN <<>>
    ELSE IF predefined_keywords[i].name = category_name
    THEN predefined_keywords[i].keywords
    ELSE PredefinedFor(category_name, i + 1)

\* line 125
stop_words ==
    {<<"t", "h", "e">>, <<"a">>, <<"a", "n">>, <<"a", "n", "d">>, <<"o", "r">>, <<"b", "u", "t">>, <<"i", "n">>, <<"o", "n">>, <<"a", "t">>, <<"t", "o">>, <<"f", "o", "r">>, <<"o", "f">>, <<"w", "i", "t", "h">>, <<"b", "y">>}

\* \w of line 121, for the characters of the model
WordChars ==
    {LowerAlpha[i] : i \in 1..26} \cup {UpperAlpha[i] : i \in 1..26}
        \cup {Digits[i] : i \in 1..10} \cup {"_"}

\* line 122, text.split(): the maximal runs of non-blank characters, in order
SplitWords(s) ==
    With({i \in 1..Len(s) : ~IsSpace(s[i]) /\ (i = 1 \/ IsSpace(s[i - 1]))}, LAMBDA starts :
    [k \in 1..Cardinality(starts) |->
        With(CHOOSE i \in starts : Cardinality({x \in starts : x <= i}) = k, LAMBDA first :
        With(CHOOSE j \in first..Len(s) :
                /\ (\A x \in first..j : ~IsSpace(s[x]))
                /\ (j = Len(s) \/ IsSpace(s[j + 1])), LAMBDA last :
        SubSeq(s, first, last)))])

\* lines 115-126
_extract_words(text) ==
    IF text = <<>> THEN <<>>
    ELSE With([i \in 1..Len(text) |->
                    IF LowerChar(text[i]) \in WordChars \/ IsSpace(text[i])
                    THEN LowerChar(text[i]) ELSE " "], LAMBDA normalized :
         SelectSeq(SplitWords(normalized),
                   LAMBDA w : Len(w) > 2 /\ w \notin stop_words))

\* x in list
InSeq(x, seq) == \E i \in 1..Len(seq) : seq[i] = x

\* the keys of Counter(words), in order of first occurrence
RECURSIVE CounterKeys(_, _)
CounterKeys(words, acc) ==
    IF words = <<>> THEN acc
    ELSE CounterKeys(Tail(words),
                     IF InSeq(Head(words), acc) THEN acc ELSE Append(acc, Head(words)))

\* Counter(words)[w]
CounterOf(words, w) == Cardinality({i \in 1..Len(words) : words[i] = w})

\* line 94 and line 107
LearnLimit == 100
LearnTop == 10

\* lines 92-94: the expenses of the category, at most LearnLimit of them
existing_expenses(category, expense_table) ==
    With(SelectSeq(expense_table, LAMBDA e : e.category_id = Uuid(category.id)),
         LAMBDA rows : SubSeq(rows, 1, Min(LearnLimit, Len(rows))))

\* lines 98-101
RECURSIVE description_words(_)
description_words(rows) ==
    IF rows = <<>> THEN <<>>
    ELSE _extract_words(Head(rows).description.s) \o description_words(Tail(rows))

\* lines 105-106
common_words(words) ==
    SelectSeq(CounterKeys(words, <<>>),
              LAMBDA w : CounterOf(words, w) >= 2 /\ Len(w) > 3)

\* lines 88-110: list(set(keywords)) of one category, as a set
CategoryKeywords(category, expense_table) ==
    With(PredefinedFor(category.name, 1), LAMBDA keywords :
    With(common_words(description_words(existing_expenses(category, expense_table))),
         LAMBDA common :
    With(keywords \o SubSeq(common, 1, Min(LearnTop, Len(common))), LAMBDA all :
    {all[i] : i \in 1..Len(all)})))

\* lines 32-113: keyword_map, a dict from category name to keywords (the
\* names of the store are unique)
_build_keyword_map(cats, expense_table) ==
    [n \in {cats[i].name : i \in 1..Len(cats)} |->
        CategoryKeywords(cats[CHOOSE i \in 1..Len(cats) : cats[i].name = n],
                         expense_table)]

\* lines 165-175: the loop over the keywords of a category
RECURSIVE KeywordScore(_, _, _)
KeywordScore(keywords, normalized_desc, desc_words) ==
    IF keywords = {} THEN 0
    ELSE With(CHOOSE k \in keywords : TRUE, LAMBDA keyword :
         (IF InSeq(Lower(keyword), desc_words) THEN 3
          ELSE IF IsSubstr(Lower(keyword), normalized_desc) THEN 1
          ELSE 0)
         + KeywordScore(keywords \ {keyword}, normalized_desc, desc_words))

\* lines 178-182: the loop over the words of the category's name
RECURSIVE NameScore(_, _)
NameScore(category_words, desc_words) ==
    IF category_words = <<>> THEN 0
    ELSE (IF InSeq(Head(category_words), desc_words) THEN 2 ELSE 0)
         + NameScore(Tail(category_words), desc_words)

\* lines 158-182: the score of one category; a category without keywords is
\* passed over (line 160) and can never become the best match, as with 0
CategoryScore(category, keyword_map, description) ==
    IF ~Has(keyword_map, category.name) \/ keyword_map[category.name] = {} THEN 0
    ELSE KeywordScore(keyword_map[category.name], Lower(description),
                      _extract_words(description))
         + NameScore(_extract_words(category.name), _extract_words(description))

\* lines 153-187: the loop over the categories, in the order of the store
RECURSIVE MatchLoop(_, _, _, _)
MatchLoop(cats, keyword_map, description, best) ==
    IF cats = <<>> THEN best
    ELSE With(CategoryScore(Head(cats), keyword_map, description), LAMBDA score :
         MatchLoop(Tail(cats), keyword_map, description,
                   IF score > best.best_score
                   THEN [best_match |-> Head(cats), best_score |-> score]
                   ELSE best))

\* line 190
MatchThreshold == 2

\* lines 128-195: best_match as returned, with the best_score of the loop
match(description, cats, keyword_map) ==
    IF description = <<>> \/ _extract_words(description) = <<>>
    THEN [best_match |-> None, best_score |-> 0]
    ELSE With(MatchLoop(cats, keyword_map, description,
                        [best_match |-> None, best_score |-> 0]), LAMBDA best :
         IF best.best_score >= MatchThreshold THEN best
         ELSE [best_match |-> None, best_score |-> best.best_score])

(***************************************************************************)
(* CategoryMatcher.match on a store of categories and expenses             *)
(***************************************************************************)
MaxCategories == 3  \* categories of the enumerated stores

S_Misc == <<"M", "i", "s", "c">>
S_Rent == <<"R", "e", "n", "t">>
CatFoodDining == [id |-> 1, name |-> predefined_keywords[1].name]
CatTransportation == [id |-> 2, name |-> predefined_keywords[2].name]
CatMisc == [id |-> 3, name |-> S_Misc]
CatRent == [id |-> 4, name |-> S_Rent]
MatchCategories == {CatFoodDining, CatTransportation, CatMisc, CatRent}
CategoryTables ==
    {cats \in SeqsUpTo(MatchCategories, MaxCategories) :
        \A i, j \in 1..Len(cats) : i # j => cats[i] # cats[j]}

\* a stored expense of the given category
StoredExpense(id, description, category) ==
    [id |-> id, amount |-> Num(9, 0), currency |-> Str(DefaultCurrency),
     description |-> Str(description), category_id |-> Uuid(category.id),
     date |-> Date(DaysFromCivil(2026, 1, 1)), tags |-> <<>>,
     location |-> None, notes |-> None]
RentExpenses ==
    <<StoredExpense(5, <<"M", "o", "n", "t", "h", "l", "y", " ", "r", "e", "n", "t">>, CatRent),
      StoredExpense(6, <<"m", "o", "n", "t", "h", "l", "y", " ", "r", "e", "n", "t", ",", " ", "f", "l", "a", "t">>, CatRent)>>
ExpenseTables == {<<>>, RentExpenses}

S_lunch_taxi == <<"l", "u", "n", "c", "h", " ", "t", "a", "x", "i">>
MatchDescriptions ==
    {<<>>, <<"a", "t">>, <<"x", "y", "z">>, S_Lunch, <<"T", "a", "x", "i", "!">>, S_lunch_taxi,
     <<"t", "a", "x", "i", " ", "l", "u", "n", "c", "h">>, S_restaurant, <<"r", "e", "s", "t", "a", "u", "r", "a", "n", "t", "s">>, S_food,
     <<"m", "i", "s", "c", " ", "f", "e", "e">>, <<"m", "o", "n", "t", "h", "l", "y", " ", "r", "e", "n", "t">>, <<"t", "r", "a", "n", "s", "p", "o", "r", "t", "a", "t", "i", "o", "n">>,
     <<"l", "u", "n", "c", "h", " ", "r", "e", "n", "t">>, <<"m", "a", "k", "a", "n", " ", "s", "i", "a", "n", "g">>}

InitMatch ==
    /\ call = "match"
    /\ arg \in {[categories |-> cats, expenses |-> exps, description |-> d] :
                    cats \in CategoryTables, exps \in ExpenseTables,
                    d \in MatchDescriptions}
    /\ ret = NotCalled
    /\ RunIdle

\* CategoryMatcher(db).match(description)
CallMatch ==
    /\ call = "match"
    /\ ret = NotCalled
    /\ ret' = match(arg.description, arg.categories,
                    _build_keyword_map(arg.categories, arg.expenses))
    /\ UNCHANGED <<call, arg, runVars>>

NextMatch == CallMatch

SpecMatch == InitMatch /\ [][NextMatch]_vars

\* the score match() gives the i-th category of the store, and the highest
Scores ==
    With(_build_keyword_map(arg.categories, arg.expenses), LAMBDA keyword_map :
    [i \in 1..Len(arg.categories) |->
        CategoryScore(arg.categories[i], keyword_map, arg.description)])
TopScore(scores) ==
    IF scores = <<>> THEN 0
    ELSE CHOOSE m \in {scores[i] : i \in 1..Len(scores)} :
            \A i \in 1..Len(scores) : scores[i] <= m

\* C18: match returns a category only if its score is at least 2 and
\* strictly higher than the score of every other category; when two or more
\* categories share the highest score, or the highest score is below 2, it
\* returns no category.
C18_StrictBest ==
    (call = "match" /\ ret # NotCalled) =>
        With(Scores, LAMBDA scores :
        /\ ret.best_match # None =>
              \E i \in 1..Len(scores) :
                 /\ arg.categories[i] = ret.best_match
                 /\ scores[i] >= MatchThreshold
                 /\ \A j \in 1..Len(scores) : j # i => scores[j] < scores[i]
        /\ (\/ TopScore(scores) < MatchThreshold
            \/ Cardinality({i \in 1..Len(scores) : scores[i] = TopScore(scores)}) >= 2)
              => ret.best_match = None)

\* what the code does in the case of C18: when the highest score is at least
\* 2 it returns the first category, in the order of the store, that has it
C18_FirstBestAsCoded ==
    (call = "match" /\ ret # NotCalled) =>
        With(Scores, LAMBDA scores :
        IF TopScore(scores) < MatchThreshold THEN ret.best_match = None
        ELSE \E i \in 1..Len(scores) :
                /\ arg.categories[i] = ret.best_match
                /\ scores[i] = TopScore(scores)
                /\ \A j \in 1..(i - 1) : scores[j] < scores[i])

\* the score as the sum of three counts, for a category with the given keywords
CountedScore(category, keywords, description) ==
    With(_extract_words(description), LAMBDA words :
    With(_extract_words(category.name), LAMBDA name_words :
        3 * Cardinality({k \in keywords : InSeq(Lower(k), words)})
        + Cardinality({k \in keywords : /\ ~InSeq(Lower(k), words)
                                        /\ IsSubstr(Lower(k), Lower(description))})
        + 2 * Cardinality({i \in 1..Len(name_words) : InSeq(name_words[i], words)})))

\* the counted score of the i-th category of the store
CountedScores ==
    With(_build_keyword_map(arg.categories, arg.expenses), LAMBDA keyword_map :
    [i \in 1..Len(arg.categories) |->
        CountedScore(arg.categories[i],
                     IF Has(keyword_map, arg.categories[i].name)
                     THEN keyword_map[arg.categories[i].name] ELSE {},
                     arg.description)])

\* C19: the score of a description against a category is 3 times the number
\* of the category's keywords equal to a tokenized word of the description,
\* plus 1 times the number of its keywords that are only a substring of the
\* lower-cased description, plus 2 times the number of tokens of the
\* category's name that are tokenized words of the description; so the best
\* score of a call of match on a description with words is the highest of
\* these sums, and a returned category has that sum
C19_CountedScore ==
    (call = "match" /\ ret # NotCalled /\ _extract_words(arg.description) # <<>>) =>
        /\ ret.best_score = TopScore(CountedScores)
        /\ ret.best_match # None =>
                \E i \in 1..Len(arg.categories) :
                    /\ arg.categories[i] = ret.best_match
                    /\ CountedScores[i] = ret.best_score

\* as coded: the sum is the score of the categories that have a keyword; a
\* category without keywords is passed over and its name is not scored
C19_CountedScoreAsCoded ==
    (call = "match" /\ ret # NotCalled /\ _extract_words(arg.description) # <<>>) =>
        With(_build_keyword_map(arg.categories, arg.expenses), LAMBDA keyword_map :
        With([i \in 1..Len(arg.categories) |->
                IF ~Has(keyword_map, arg.categories[i].name)
                    \/ keyword_map[arg.categories[i].name] = {}
                THEN 0 ELSE CountedScores[i]], LAMBDA scores :
            /\ ret.best_score = TopScore(scores)
            /\ ret.best_match # None =>
                    \E i \in 1..Len(arg.categories) :
                        /\ arg.categories[i] = ret.best_match
                        /\ scores[i] = ret.best_score))

\* the rows of expenses_data the loop has gone through without skipping them
\* and without finding a category through the id of a stored expense
ClassifiedRows ==
    IF pc \in {"rows", "done"}
    THEN {j \in 1..Len(expenses_data) :
            /\ j < idx
            /\ ~AmountNotPositive(expenses_data[j])
            /\ ExpenseCategoryId(expenses_data[j], expenses) = None}
    ELSE {}

\* the id column of a category or of no category
CategoryIdOf(category) == IF category # None THEN Uuid(category.id) ELSE None

\* keyword scoring of the row's description by the matcher constructed
\* before the loop, on the categories and expenses of the store at that time
KeywordPhase(expense_data) ==
    match(PyStr(expense_data["description"]), all_categories,
          _build_keyword_map(all_categories, InitialExpenses)).best_match

\* C20: for every non-skipped row, a category found through the row's hint
\* is the one assigned; when the hint yields nothing (or the row has no
\* hint) the assigned category is the result of keyword scoring on the
\* description, so a hint-less description with a predefined keyword of a
\* category whose score is at least 2 is assigned that category
C20_KeywordPhase ==
    \A j \in ClassifiedRows :
        With(MatchHint(expenses_data[j], all_categories), LAMBDA by_hint :
        expenses_data[j]["category_id"] =
            IF by_hint # None THEN CategoryIdOf(by_hint)
            ELSE CategoryIdOf(KeywordPhase(expenses_data[j])))

\* as coded: the category found through the hint is assigned, and a row for
\* which the hint yields nothing is left without a category, whatever the
\* keyword scoring of its description would give
C20_HintOnlyAsCoded ==
    \A j \in ClassifiedRows :
        expenses_data[j]["category_id"] =
            CategoryIdOf(MatchHint(expenses_data[j], all_categories))

\* a hint-less row whose description scores at least 2 has been classified
C20_ScoringRowSeen ==
    \E j \in ClassifiedRows :
        /\ MatchHint(expenses_data[j], all_categories) = None
        /\ KeywordPhase(expenses_data[j]) # None

(***************************************************************************)
(* import_excel of expense-tracker/backend/app/api/import_api.py: the      *)
(* Type column of a row matched to a category (lines 98-157)               *)
(***************************************************************************)
\* lines 102-119
type_to_category == <<
    [key |-> <<"f", "o", "o", "d">>, value |-> Str(<<"F", "o", "o", "d", " ", "&", " ", "D", "i", "n", "i", "n", "g">>)],
    [key |-> <<"m", "i", "s", "c">>, value |-> Str(<<"O", "t", "h", "e", "r">>)],
    [key |-> <<"c", "h", "i", "l", "d", "c", "a", "r", "e">>, value |-> Str(<<"O", "t", "h", "e", "r">>)],
    [key |-> <<"i", "n", "c", "o", "m", "e">>, value |-> None],
    [key |-> <<"t", "a", "x", "e", "s">>, value |-> Str(<<"B", "i", "l", "l", "s", " ", "&", " ", "U", "t", "i", "l", "i", "t", "i", "e", "s">>)],
    [key |-> <<"h", "o", "u", "s", "i", "n", "g">>, value |-> Str(<<"B", "i", "l", "l", "s", " ", "&", " ", "U", "t", "i", "l", "i", "t", "i", "e", "s">>)],
    [key |-> <<"v", "a", "c", "a", "t", "i", "o", "n">>, value |-> Str(<<"T", "r", "a", "v", "e", "l">>)],
    [key |-> <<"t", "r", "a", "v", "e", "l">>, value |-> Str(<<"T", "r", "a", "v", "e", "l">>)],
    [key |-> <<"t", "r", "a", "n", "s", "p", "o", "r", "t", "a", "t", "i", "o", "n">>, value |-> Str(<<"T", "r", "a", "n", "s", "p", "o", "r", "t", "a", "t", "i", "o", "n">>)],
    [key |-> <<"s", "h", "o", "p", "p", "i", "n", "g">>, value |-> Str(<<"S", "h", "o", "p", "p", "i", "n", "g">>)],
    [key |-> <<"e", "n", "t", "e", "r", "t", "a", "i", "n", "m", "e", "n", "t">>, value |-> Str(<<"E", "n", "t", "e", "r", "t", "a", "i", "n", "m", "e", "n", "t">>)],
    [key |-> <<"h", "e", "a", "l", "t", "h", "c", "a", "r", "e">>, value |-> Str(<<"H", "e", "a", "l", "t", "h", "c", "a", "r", "e">>)],
    [key |-> <<"e", "d", "u", "c", "a", "t", "i", "o", "n">>, value |-> Str(<<"E", "d", "u", "c", "a", "t", "i", "o", "n">>)],
    [key |-> <<"p", "e", "r", "s", "o", "n", "a", "l", " ", "c", "a", "r", "e">>, value |-> Str(<<"P", "e", "r", "s", "o", "n", "a", "l", " ", "C", "a", "r", "e">>)],
    [key |-> <<"g", "i", "f", "t", "s">>, value |-> Str(<<"G", "i", "f", "t", "s", " ", "&", " ", "D", "o", "n", "a", "t", "i", "o", "n", "s">>)],
    [key |-> <<"s", "u", "b", "s", "c", "r", "i", "p", "t", "i", "o", "n">>, value |-> Str(<<"S", "u", "b", "s", "c", "r", "i", "p", "t", "i", "o", "n", "s">>)]
>>

\* type_to_category[type_value], NotCalled standing for a missing key
TypeLookup(type_value) ==
    With({i \in 1..Len(type_to_category) : type_to_category[i].key = type_value}, LAMBDA at :
    IF at = {} THEN NotCalled ELSE type_to_category[CHOOSE i \in at : TRUE].value)

\* lines 143-148: the category the table names, when the store has it
TypeMapped(type_value, m) ==
    With(TypeLookup(type_value), LAMBDA category_name :
    IF category_name = NotCalled \/ ~Truthy(category_name) THEN None
    ELSE MapGet(m, Lower(category_name.s)))

\* lines 138-157: matched_category after the Type column has been tried
TypeMatch(expense_data, cats) ==
    IF Has(expense_data, "category") /\ Truthy(expense_data["category"])
    THEN With(NameLowerMap(cats, <<>>), LAMBDA m :
         With(Lower(Strip(PyStr(expense_data["category"]))), LAMBDA type_value :
         With(TypeMapped(type_value, m), LAMBDA mapped :
         IF mapped # None THEN mapped ELSE FuzzyMatch(m, type_value))))
    ELSE None

(***************************************************************************)
(* the hint of a row matched against a store of categories, by either      *)
(* import_excel                                                            *)
(***************************************************************************)
MaxHintCategories == 2  \* categories of the enumerated stores

S_Other == <<"O", "t", "h", "e", "r">>
S_Another == <<"A", "n", "o", "t", "h", "e", "r">>
S_misc == <<"m", "i", "s", "c">>
S_Emoji == <<"U+1F354">>
HintCategories ==
    {[id |-> 1, name |-> S_Food], [id |-> 2, name |-> S_Food_Dining],
     [id |-> 3, name |-> S_Other], [id |-> 4, name |-> S_Another]}
HintTables ==
    {cats \in SeqsUpTo(HintCategories, MaxHintCategories) :
        \A i, j \in 1..Len(cats) : i # j => cats[i] # cats[j]}
Hints ==
    {None, Str(<<>>), Str(S_food), Str(<<" ">> \o S_Food \o <<" ">>), Str(S_misc),
     Str(S_Other), Str(<<"o", "t", "h">>), Str(S_abc), Str(<<"i", "n", "c", "o", "m", "e">>),
     Str(S_Emoji), Str(S_Emoji \o <<" ">> \o S_Food), Str(<<" ">> \o S_Emoji \o <<" ">>)}

InitHint ==
    /\ call \in {"match_hint", "type_match"}
    /\ arg \in {[hint |-> h, categories |-> cats] : h \in Hints, cats \in HintTables}
    /\ ret = NotCalled
    /\ RunIdle

\* src/backend import_excel, lines 255-282, on the row's category value
CallMatchHint ==
    /\ call = "match_hint"
    /\ ret = NotCalled
    /\ ret' = [matched_category |->
                  MatchHint(Put(EmptyDict, "category", arg.hint), arg.categories)]
    /\ UNCHANGED <<call, arg, runVars>>

\* expense-tracker import_excel, lines 138-157, on the row's Type value
CallTypeMatch ==
    /\ call = "type_match"
    /\ ret = NotCalled
    /\ ret' = [matched_category |->
                  TypeMatch(Put(EmptyDict, "category", arg.hint), arg.categories)]
    /\ UNCHANGED <<call, arg, runVars>>

NextHint == CallMatchHint \/ CallTypeMatch

SpecHint == InitHint /\ [][NextHint]_vars

\* the hint as the three steps read it, and whether it is plain text (not
\* empty once trimmed, no decorative symbol)
HintText == Lower(Strip(PyStr(arg.hint)))
PlainHint ==
    /\ arg.hint # None
    /\ HintText # <<>>
    /\ \A i \in 1..Len(HintText) : HintText[i] \notin EmojiChars

\* the three steps in the stated order: exact name, synonym table, substring
OrderedSteps(exact, table, substring) ==
    With(NameLowerMap(arg.categories, <<>>), LAMBDA m :
    With(IF exact THEN MapGet(m, HintText) ELSE None, LAMBDA a :
    IF a # None THEN a
    ELSE With(IF table THEN TypeMapped(HintText, m) ELSE None, LAMBDA b :
         IF b # None THEN b
         ELSE IF substring THEN FuzzyMatch(m, HintText) ELSE None)))

\* C21: hint matching tries (a) exact case-insensitive equality with the
\* name of an existing category, (b) the fixed hint-to-category synonym
\* table, (c) substring containment in either direction, first category in
\* iteration order, and stops at the first success; a category whose name
\* equals the hint is chosen over any table or substring candidate
C21_ExactTableSubstring ==
    (call \in {"match_hint", "type_match"} /\ ret # NotCalled /\ PlainHint)
        => ret.matched_category = OrderedSteps(TRUE, TRUE, TRUE)

\* as coded in src/backend: exact name, then substring; there is no table
C21_BackendAsCoded ==
    (call = "match_hint" /\ ret # NotCalled /\ PlainHint)
        => ret.matched_category = OrderedSteps(TRUE, FALSE, TRUE)

\* as coded in expense-tracker: the table, then substring; no exact step
C21_TrackerAsCoded ==
    (call = "type_match" /\ ret # NotCalled /\ PlainHint)
        => ret.matched_category = OrderedSteps(FALSE, TRUE, TRUE)

(***************************************************************************)
(* CategoryMatcher._build_keyword_map on a store of categories and         *)
(* categorized expenses                                                    *)
(***************************************************************************)
MaxLearnExpenses == 3  \* expenses of the enumerated stores

S_rent_rent == <<"r", "e", "n", "t", " ", "r", "e", "n", "t">>
S_monthly_rent == <<"m", "o", "n", "t", "h", "l", "y", " ", "r", "e", "n", "t">>
S_Monthly_rent_flat == <<"M", "o", "n", "t", "h", "l", "y", " ", "r", "e", "n", "t", ",", " ", "f", "l", "a", "t">>
S_eleven_words == <<"a", "a", "a", "a", " ", "b", "b", "b", "b", " ", "c", "c", "c", "c", " ", "d", "d", "d", "d", " ", "e", "e", "e", "e", " ", "f", "f", "f", "f", " ", "g", "g", "g", "g", " ", "h", "h", "h", "h", " ", "i", "i", "i", "i", " ", "j", "j", "j", "j", " ", "k", "k", "k", "k">>
S_kkkk_flat == <<"k", "k", "k", "k", " ", "f", "l", "a", "t">>
S_dinner_out == <<"d", "i", "n", "n", "e", "r", " ", "o", "u", "t", ",", " ", "d", "i", "n", "n", "e", "r">>
LearnExpenses ==
    {[description |-> S_rent_rent, category |-> CatRent],
     [description |-> S_monthly_rent, category |-> CatRent],
     [description |-> S_Monthly_rent_flat, category |-> CatRent],
     [description |-> S_eleven_words, category |-> CatRent],
     [description |-> S_kkkk_flat, category |-> CatRent],
     [description |-> S_dinner_out, category |-> CatFoodDining]}
LearnTables ==
    {[i \in 1..Len(es) |-> StoredExpense(10 + i, es[i].description, es[i].category)] :
        es \in SeqsUpTo(LearnExpenses, MaxLearnExpenses)}
LearnCategories == {<<CatRent>>, <<CatFoodDining, CatRent>>}

InitLearn ==
    /\ call = "_build_keyword_map"
    /\ arg \in {[categories |-> cats, expenses |-> exps] :
                    cats \in LearnCategories, exps \in LearnTables}
    /\ ret = NotCalled
    /\ RunIdle

\* CategoryMatcher(db), line 30
CallBuildKeywordMap ==
    /\ call = "_build_keyword_map"
    /\ ret = NotCalled
    /\ ret' = [keyword_map |-> _build_keyword_map(arg.categories, arg.expenses)]
    /\ UNCHANGED <<call, arg, runVars>>

NextLearn == CallBuildKeywordMap

SpecLearn == InitLearn /\ [][NextLearn]_vars

\* the expenses of a category (at most LearnLimit), the tokens of their
\* descriptions, in how many of the descriptions a token appears and how
\* often it occurs in all of them
LearnFrom(category) == existing_expenses(category, arg.expenses)
TokensOf(category) ==
    UNION {{_extract_words(LearnFrom(category)[i].description.s)[k] :
                k \in 1..Len(_extract_words(LearnFrom(category)[i].description.s))} :
            i \in 1..Len(LearnFrom(category))}
DescriptionsWith(category, w) ==
    Cardinality({i \in 1..Len(LearnFrom(category)) :
                    InSeq(w, _extract_words(LearnFrom(category)[i].description.s))})
Occurrences(category, w) == CounterOf(description_words(LearnFrom(category)), w)
PredefinedSet(category) ==
    With(PredefinedFor(category.name, 1), LAMBDA keywords :
    {keywords[i] : i \in 1..Len(keywords)})

\* the tokens that may be learned: longer than 3 characters, no stop word,
\* in at least 2 descriptions
Learnable(category) ==
    {w \in TokensOf(category) :
        Len(w) > 3 /\ w \notin stop_words /\ DescriptionsWith(category, w) >= 2}

\* a set of LearnTop most frequent tokens of the set (all of a smaller set)
MostFrequent(L, category, candidates) ==
    /\ L \subseteq candidates
    /\ Cardinality(L) = Min(LearnTop, Cardinality(candidates))
    /\ \A w \in L, v \in candidates \ L :
            Occurrences(category, v) <= Occurrences(category, w)

\* C22: the learned keywords added to the keyword set of a category are
\* exactly the (at most) 10 most frequent tokens among those that are longer
\* than 3 characters, are no stop words and appear in at least 2 distinct
\* descriptions of the (at most 100) existing expenses of the category
C22_LearnedKeywords ==
    (call = "_build_keyword_map" /\ ret # NotCalled) =>
        \A i \in 1..Len(arg.categories) :
            With(arg.categories[i], LAMBDA category :
            \E L \in SUBSET Learnable(category) :
                /\ MostFrequent(L, category, Learnable(category))
                /\ ret.keyword_map[category.name] = PredefinedSet(category) \cup L)

\* as coded: every keyword that is not predefined is a token longer than 3
\* characters, no stop word, that occurs at least twice in the descriptions
\* taken together, and at most 10 keywords are added
C22_LearnedAsCoded ==
    (call = "_build_keyword_map" /\ ret # NotCalled) =>
        \A i \in 1..Len(arg.categories) :
            With(arg.categories[i], LAMBDA category :
            With(PredefinedSet(category), LAMBDA predefined :
            With(description_words(LearnFrom(category)), LAMBDA words :
            With(ret.keyword_map[category.name] \ predefined, LAMBDA added :
                /\ predefined \subseteq ret.keyword_map[category.name]
                /\ Cardinality(added) <= LearnTop
                /\ \A w \in added :
                        /\ InSeq(w, words)
                        /\ Len(w) > 3 /\ w \notin stop_words
                        /\ CounterOf(words, w) >= 2))))

(***************************************************************************)
(* the category bootstrap of import_excel (lines 84-173) on Categories     *)
(* sheets that repeat names and legacy ids                                 *)
(***************************************************************************)
MaxCatRows == 3  \* rows below the header of the enumerated Categories sheets

CatLegacyFood == <<Str(UuidStr(FoodId)), Str(<<" ">> \o S_Food)>>
CatOther == <<Str(UuidStr(FoodId + 8)), Str(S_Other)>>
CatBlank == <<Str(UuidStr(FoodId + 8)), Str(<<" ">>)>>
CatRows == {CatExisting, CatNew, CatLegacyFood, CatOther, CatBlank}
BootSheets == {<<CatHeader>> \o rows : rows \in SeqsUpTo(CatRows, MaxCatRows)}
BootWorkbooks ==
    {[sheetnames |-> {"Categories", "Expenses"}, cats |-> c, sheet |-> <<HFull, ROk>>] :
        c \in BootSheets}

InitBootstrap ==
    /\ pc = "start"
    /\ file = "ok"
    /\ workbook \in BootWorkbooks
    /\ InitStore
    /\ category_id_map = EmptyDict
    /\ categories_imported = 0
    /\ cat_row = 0
    /\ expenses_data = <<>>
    /\ parse_errors = <<>>
    /\ all_categories = <<>>
    /\ idx = 0
    /\ imported_count = 0
    /\ failed_rows = <<>>
    /\ category_matches = EmptyDict
    /\ uncategorized_count = 0
    /\ skipped_count = 0
    /\ response = NotCalled
    /\ LocalIdle
    /\ FnIdle

NextBootstrap == ReceiveFile \/ BootstrapRow

SpecBootstrap == InitBootstrap /\ [][NextBootstrap]_vars

\* the name and the legacy id a row of the Categories sheet gives (None when
\* the cell is empty or the name is blank), the rows below the header that
\* have a name, and the number of categories of a table with a name
CatHeaderRow == FindCatHeader(workbook.cats, 1)
RowName(r) ==
    With(CatCol(workbook.cats[CatHeaderRow], S_Name_lower), LAMBDA col :
    IF col # 0 /\ Truthy(workbook.cats[r][col])
        /\ Strip(PyStr(workbook.cats[r][col])) # <<>>
    THEN Strip(PyStr(workbook.cats[r][col])) ELSE None)
RowLegacyId(r) ==
    With(CatCol(workbook.cats[CatHeaderRow], S_ID_lower), LAMBDA col :
    IF col # 0 /\ Truthy(workbook.cats[r][col])
        /\ Strip(PyStr(workbook.cats[r][col])) # <<>>
    THEN Strip(PyStr(workbook.cats[r][col])) ELSE None)
NamedRows ==
    IF "Categories" \in workbook.sheetnames /\ CatHeaderRow # 0
    THEN {r \in (CatHeaderRow + 1)..Len(workbook.cats) : RowName(r) # None}
    ELSE {}
Named(table, name) == {i \in 1..Len(table) : table[i].name = name}
BootstrapDone == pc = "bootstrap" /\ ~BootstrapPending

C23_StepRule ==
    BootstrapPending =>
        With(RowName(cat_row), LAMBDA name :
        With(RowLegacyId(cat_row), LAMBDA old_id :
        IF name = None
        THEN UNCHANGED <<categories, category_id_map, categories_imported>>
        ELSE /\ Cardinality(Named(categories', name)) <= 1
             /\ Named(categories, name) # {} =>
                    /\ UNCHANGED <<categories, categories_imported>>
                    /\ old_id # None =>
                        \E i \in Named(categories, name) :
                            Get(category_id_map', old_id) = Uuid(categories[i].id)
             /\ Named(categories, name) = {} =>
                    \/ UNCHANGED <<categories, category_id_map, categories_imported>>
                    \/ /\ Len(categories') = Len(categories) + 1
                       /\ SubSeq(categories', 1, Len(categories)) = categories
                       /\ categories'[Len(categories')].name = name
                       /\ categories_imported' = categories_imported + 1
                       /\ old_id # None =>
                            Get(category_id_map', old_id)
                                = Uuid(categories'[Len(categories')].id)
             /\ \A k \in DOMAIN category_id_map' :
                    (old_id = None \/ k # old_id) =>
                        /\ k \in DOMAIN category_id_map
                        /\ category_id_map'[k] = category_id_map[k]))
LegacyRows ==
    IF pc \in {"rows", "done"}
    THEN {j \in 1..Len(expenses_data) :
            /\ j < idx
            /\ ~AmountNotPositive(expenses_data[j])
            /\ ExpenseCategoryId(expenses_data[j], expenses) # None}
    ELSE {}

\* the category the row's legacy category id resolves to
LegacyCategory(expense_data) ==
    MatchLegacy(ExpenseCategoryId(expense_data, expenses), category_id_map, categories)

\* C24: for a non-skipped row whose prior-export id resolves to a legacy
\* category id, the category that id resolves to through the LegacyIdMap is
\* the one assigned, before any classification; classification decides only
\* when the legacy id yields no category
C24_LegacyFirst ==
    \A j \in LegacyRows :
        IF LegacyCategory(expenses_data[j]) # None
        THEN expenses_data[j]["category_id"]
                = CategoryIdOf(LegacyCategory(expenses_data[j]))
        ELSE expenses_data[j]["category_id"]
                = CategoryIdOf(MatchHint(expenses_data[j], all_categories))

\* as coded: the hint decides first, and the legacy category id is resolved
\* only for a row whose hint yields no category
C24_HintFirstAsCoded ==
    \A j \in LegacyRows :
        IF MatchHint(expenses_data[j], all_categories) # None
        THEN expenses_data[j]["category_id"]
                = CategoryIdOf(MatchHint(expenses_data[j], all_categories))
        ELSE expenses_data[j]["category_id"]
                = CategoryIdOf(LegacyCategory(expenses_data[j]))

(***************************************************************************)
(* two runs of import_excel bootstrapping categories against one store.    *)
(* Each run has its own session: pc, cat_row, workbook, response and       *)
(* categories_imported are functions of the run; categories and next_id    *)
(* are the store.  response[r] is what run r has observed and done, row by *)
(* row.                                                                    *)
(***************************************************************************)
MaxRaceRows == 2  \* rows with a name in the Categories sheet of a run

Runs == {1, 2}
RaceNames == {S_New, S_Food}
RaceSheets == SeqsUpTo(RaceNames, MaxRaceRows) \ {<<>>}

\* Category.name is unique (models/category.py, line 12): the commit of a
\* second category of the name raises
NameTaken_NotUnique(table, name) == FALSE
NameTaken(table, name) == \E i \in 1..Len(table) : table[i].name = name

InitRace ==
    /\ pc = [r \in Runs |-> "lookup"]
    /\ file = "ok"
    /\ workbook \in [Runs -> RaceSheets]
    /\ InitStore
    /\ category_id_map = EmptyDict
    /\ categories_imported = [r \in Runs |-> 0]
    /\ cat_row = [r \in Runs |-> 1]
    /\ expenses_data = <<>>
    /\ parse_errors = <<>>
    /\ all_categories = <<>>
    /\ idx = 0
    /\ imported_count = 0
    /\ failed_rows = <<>>
    /\ category_matches = EmptyDict
    /\ uncategorized_count = 0
    /\ skipped_count = 0
    /\ response = [r \in Runs |-> <<>>]
    /\ LocalIdle
    /\ FnIdle

\* line 149: existing = db.query(Category).filter(Category.name == name).first()
\* and lines 150-153 when there is one
RaceLookup(r) ==
    /\ pc[r] = "lookup"
    /\ cat_row[r] <= Len(workbook[r])
    /\ \E name \in {workbook[r][cat_row[r]]} :
       \E existing \in {FirstWhere(categories, "name", name)} :
          /\ response' = [response EXCEPT ![r] =
                Append(@, [name |-> name, existing |-> existing,
                           attempt |-> IF existing = None THEN "pending" ELSE "none"])]
          /\ IF existing = None
             THEN /\ pc' = [pc EXCEPT ![r] = "create"]
                  /\ UNCHANGED cat_row
             ELSE /\ cat_row' = [cat_row EXCEPT ![r] = @ + 1]
                  /\ UNCHANGED pc
    /\ UNCHANGED <<file, workbook, storeVars, category_id_map, categories_imported,
                   parseVars, loopVars, fnVars, localVars>>

\* lines 155-173: db.add(new_category), db.commit(), the count; the except
\* clause when the commit raises
RaceCreate(r) ==
    /\ pc[r] = "create"
    /\ \E name \in {workbook[r][cat_row[r]]} :
          IF NameTaken(categories, name)
          THEN /\ response' = [response EXCEPT ![r][Len(response[r])].attempt = "rejected"]
               /\ UNCHANGED <<storeVars, categories_imported>>
          ELSE /\ categories' = Append(categories, [id |-> next_id, name |-> name])
               /\ next_id' = next_id + 1
               /\ categories_imported' = [categories_imported EXCEPT ![r] = @ + 1]
               /\ response' = [response EXCEPT ![r][Len(response[r])].attempt = "created"]
               /\ UNCHANGED expenses
    /\ pc' = [pc EXCEPT ![r] = "lookup"]
    /\ cat_row' = [cat_row EXCEPT ![r] = @ + 1]
    /\ UNCHANGED <<file, workbook, category_id_map, parseVars, loopVars, fnVars,
                   localVars>>

NextRace == \E r \in Runs : RaceLookup(r) \/ RaceCreate(r)

SpecRace == InitRace /\ [][NextRace]_vars

\* run r has attempted to create a category of the name after observing
\* that there is none
AttemptedAbsent(r, name) ==
    \E k \in 1..Len(response[r]) :
        /\ response[r][k].name = name
        /\ response[r][k].existing = None
        /\ response[r][k].attempt \in {"created", "rejected"}

\* a run that has observed a name as not found goes on to the creation
\* without looking again, whatever the other run does in between
CreateFollowsLookup ==
    \A r \in Runs :
        pc[r] = "create" =>
            \/ pc'[r] = "create" /\ response'[r] = response[r]
            \/ response'[r][Len(response[r])].attempt \in {"created", "rejected"}

\* C25: the check of the name and the creation are two steps of a run, and
\* nothing keeps the other run's check from falling between them: a run
\* that observed "not found" attempts the creation whatever has happened to
\* the store since.  Only the unique name of the store keeps a name from
\* having two categories: the later attempt is rejected and not counted.
C25_CheckThenCreate ==
    /\ [](\A i, j \in 1..Len(categories) :
            categories[i].name = categories[j].name => i = j)
    /\ [](\A r \in Runs :
            categories_imported[r] =
                Cardinality({k \in 1..Len(response[r]) : response[r][k].attempt = "created"}))
    /\ [][CreateFollowsLookup]_vars

\* C25: both runs observed the same absent name as not found and both
\* attempted to create a category of that name
C25_Witness ==
    /\ AttemptedAbsent(1, S_New)
    /\ AttemptedAbsent(2, S_New)

\* the rows reported by a list of errors are in ascending order
RowsAscend(errors) ==
    \A i, j \in 1..Len(errors) : i < j => errors[i].row < errors[j].row

\* C26: at the end of every run that returns a result the counters agree:
\* imported + skipped + rows that failed at persistence = total_rows,
\* failed = rows that failed at persistence + validation errors, and the
\* errors list has exactly failed entries, the validation errors first in
\* row order, then the persistence errors in row order
C26_Counters ==
    (pc = "done" /\ response.success) =>
        With(response.summary, LAMBDA summary :
        With(Len(response.errors) - Len(parse_errors), LAMBDA persistence :
            /\ persistence = Len(failed_rows)
            /\ summary.total_rows = Len(expenses_data)
            /\ summary.imported + summary.skipped + persistence = summary.total_rows
            /\ summary.imported = Len(expenses) - Len(InitialExpenses)
            /\ summary.failed = persistence + Len(parse_errors)
            /\ Len(response.errors) = summary.failed
            /\ SubSeq(response.errors, 1, Len(parse_errors)) = parse_errors
            /\ RowsAscend(parse_errors)
            /\ RowsAscend(SubSeq(response.errors, Len(parse_errors) + 1,
                                 Len(response.errors)))
            /\ \A k \in 1..persistence :
                    response.errors[Len(parse_errors) + k].row = failed_rows[k].row))

\* C26: a run has ended with an imported row, a row that failed validation
\* and a row that failed at persistence
C26_Witness ==
    /\ pc = "done" /\ response.success
    /\ response.summary.imported >= 1
    /\ Len(parse_errors) >= 1
    /\ Len(failed_rows) >= 1
    /\ response.summary.failed >= 2

\* the rows of the sheet in which _detect_columns mapped a column, and the
\* last of them
DetectedHeaderRows(ws) ==
    {h \in 1..LastScannedRow(ws) : FullScan(ws, h) # FullScan(ws, h - 1)}
DetectedHeaderRow(ws) ==
    CHOOSE h \in DetectedHeaderRows(ws) : \A g \in DetectedHeaderRows(ws) : g <= h
Parsed == pc \in {"rows", "done"} /\ DetectedHeaderRows(workbook.sheet) # {}

\* C27: the row in which the column headers were detected is never
\* extracted as a transaction row: extraction covers exactly the rows after
\* the detected header row, whichever of the first 3 rows holds the headers
C27_HeaderNotExtracted ==
    Parsed =>
        /\ \A k \in 1..Len(parse_errors) :
                parse_errors[k].row > DetectedHeaderRow(workbook.sheet)
        /\ Len(expenses_data) + Len(parse_errors)
                <= Len(workbook.sheet) - DetectedHeaderRow(workbook.sheet)

\* as coded: extraction covers the rows from row 2 on, wherever the headers
\* were detected, so the header row is left out only when it is row 1
C27_FromSecondRowAsCoded ==
    Parsed =>
        /\ \A k \in 1..Len(parse_errors) : parse_errors[k].row >= FirstDataRow
        /\ Len(expenses_data) + Len(parse_errors)
                <= Len(workbook.sheet) - (FirstDataRow - 1)
        /\ DetectedHeaderRow(workbook.sheet) = FirstDataRow - 1
                => \A k \in 1..Len(parse_errors) :
                        parse_errors[k].row > DetectedHeaderRow(workbook.sheet)

\* the headers were detected below row 1 and the header row was reported as
\* a transaction row that failed validation
C27_HeaderRowReported ==
    /\ Parsed
    /\ DetectedHeaderRow(workbook.sheet) > 1
    /\ \E k \in 1..Len(parse_errors) :
            parse_errors[k].row = DetectedHeaderRow(workbook.sheet)

\* the sum of the counts of a dict
RECURSIVE SumCounts(_, _)
SumCounts(d, keys) ==
    IF keys = {} THEN 0
    ELSE With(CHOOSE k \in keys : TRUE, LAMBDA k : d[k] + SumCounts(d, keys \ {k}))

\* C28: at the end of a run category_matches and uncategorized describe
\* only imported rows: the counts of category_matches and uncategorized add
\* up to imported, so a row whose persistence fails is in neither
C28_MatchesOfImported ==
    (pc = "done" /\ response.success) =>
        SumCounts(response.category_matches, DOMAIN response.category_matches)
            + response.summary.uncategorized = response.summary.imported

\* as coded: a row is counted when its category is decided, before it is
\* persisted, so the counts add up to the imported rows and the rows that
\* failed at persistence
C28_MatchesOfProcessedAsCoded ==
    (pc = "done" /\ response.success) =>
        SumCounts(response.category_matches, DOMAIN response.category_matches)
            + response.summary.uncategorized
            = response.summary.imported + Len(failed_rows)

\* C29: in the offline importer each row of a chunk is counted at most once
\* across imported and failed: the failed count process_batch returns for a
\* chunk never exceeds the number of rows of the chunk, also when rows fail
\* one by one and the commit of the chunk then fails
C29_ChunkStep ==
    (pc = "batches" /\ batch_num < TotalBatches) =>
        /\ failed_count' - failed_count <= Len(Positive(BatchSlice))
        /\ (imported_count' - imported_count) + (failed_count' - failed_count)
                <= Len(Positive(BatchSlice))
C29_FailedWithinChunk == [][C29_ChunkStep]_vars

\* as coded: the rows that failed one by one are marked failed a second time
\* when the commit of the chunk fails, so the failed count of a chunk is at
\* most the rows of the chunk when the commit succeeds, and the rows of the
\* chunk plus the rows that had failed one by one when it fails
C29_ChunkStepAsCoded ==
    (pc = "batches" /\ batch_num < TotalBatches) =>
        /\ ~commit_failed' =>
                (imported_count' - imported_count) + (failed_count' - failed_count)
                    <= Len(Positive(BatchSlice))
        /\ (commit_failed' /\ Positive(BatchSlice) # <<>>) =>
                /\ imported_count' <= imported_count
                /\ failed_count' - failed_count >= Len(Positive(BatchSlice))
                /\ failed_count' - failed_count <= 2 * Len(Positive(BatchSlice))
C29_FailedAsCoded == [][C29_ChunkStepAsCoded]_vars

\* a hint with nothing left once it is trimmed and its decorative symbols
\* are removed
EmptyNormalizedHint ==
    /\ arg.hint # None
    /\ normalize_category_name(Strip(PyStr(arg.hint))) = <<>>

\* C30: in phase-1 hint matching a hint that is empty after trimming and
\* emoji stripping, such as a hint of emoji only, yields no category:
\* substring containment never assigns a category for an empty normalized
\* hint
C30_EmptyHintNoCategory ==
    (call = "match_hint" /\ ret # NotCalled /\ EmptyNormalizedHint) =>
        ret.matched_category = None

\* as coded: the empty string is contained in every name, so a hint that is
\* truthy and empty once normalized gets the first category of a store that
\* is not empty; only a hint that is the empty string itself, or an empty
\* store, yields no category
C30_EmptyHintAsCoded ==
    (call = "match_hint" /\ ret # NotCalled /\ EmptyNormalizedHint) =>
        With(NameLowerMap(arg.categories, <<>>), LAMBDA m :
        IF Truthy(arg.hint) /\ m # <<>>
        THEN ret.matched_category = m[1].cat
        ELSE ret.matched_category = None)

\* a hint of emoji only was matched against a store with a category
C30_EmojiHintSeen ==
    /\ call = "match_hint" /\ ret # NotCalled
    /\ arg.hint = Str(S_Emoji) /\ arg.categories # <<>>

====
